---- MODULE Spec2Model ----
(***************************************************************************)
(* Model of data_catalog_exp.  The keys pipeline                           *)
(* (src/datahub_foreign_keys): MSSQLClient, KeysProcessing,                *)
(* DatahubCustomBuilder, DatahubCustomExtractor, DatahubCustomEmitter and  *)
(* main().  The stats pipeline (src/datahub_stats): MinMaxStats,           *)
(* SampleValues, PushStats and main().                                     *)
(*                                                                         *)
(* Strings are sequences of tokens.  A token is one character, except that *)
(* a literal of the code that holds no ',' and no '.' and that no regular  *)
(* expression inspects (an f-string piece, a config value) is written as   *)
(* one token.  Data strings (table names, key names, field paths) are      *)
(* always character by character.                                          *)
(***************************************************************************)
EXTENDS Integers, Sequences, FiniteSets, TLC

VARIABLES
    pc,               \* position of main(): list_urns, fetch_keys, loop, get_pks, ...
    domain_entities,  \* catalog side: the identifiers the domain search returns
    keys_db,          \* database side: the rows the SQL script returns
    catalog,          \* catalog side: identifier -> aspects stored for that entity
    urns,             \* main: urns
    fks_info_df,      \* KeysProcessing.fks_info_df
    i,                \* main: 1-based index of the for loop over urns
    urn_json,         \* main: urn_json
    primary_keys,     \* main: primary_keys
    foreign_keys,     \* main: foreign_keys
    schema_metadata,  \* main: schema_metadata
    fetched,          \* every call of get_dataset_json (keys run) or min_max_df
                      \* (stats run), in order, with its outcome
    emitted,          \* every event handed to emitter.emit, in order, with its outcome
    emitter_closed,   \* DatahubCustomEmitter.emitter: has close() been called on it
    console,          \* what the logger and print wrote, in order
    error,            \* the exception that ended main(), or "none"
    call,             \* a single call of a pure method: its inputs, then its result
    catalog0,         \* catalog side: what the catalog stored when the run began
    db_conns,         \* database side: every pyodbc connection opened, in order
    sessions,         \* catalog side: every emitter the stats pipeline made, in order
    df_stats          \* datahub_stats main: df_stats

vars == <<pc, domain_entities, keys_db, catalog, urns, fks_info_df, i, urn_json,
          primary_keys, foreign_keys, schema_metadata, fetched, emitted,
          emitter_closed, console, error, call, catalog0, db_conns, sessions,
          df_stats>>

(***************************************************************************)
(* Bounds of the model.                                                    *)
(***************************************************************************)
MaxLen == 4        \* longest identifier given to extract_table_name alone
MaxRows == 2       \* most rows of a key-fact table given to get_pks / get_fks alone
MaxFields == 2     \* most fields of a snapshot given to get_pks alone
MaxUrns == 2       \* most identifiers a domain lists in a run of main()

(***************************************************************************)
(* Strings.                                                                *)
(***************************************************************************)
Comma == ","
Dot == "."

\* The characters \w matches, among the characters the model uses.
WordChars == {"P", "K", "A", "B", "a", "b", "f", "k", "x", "_"}

SeqsUpTo(S, n) == UNION {[1..m -> S] : m \in 0..n}

Last(s) == s[Len(s)]

\* Index of the first sep in s, 0 when there is none (str.find + 1).
Find(s, sep) ==
    IF \E j \in 1..Len(s) : s[j] = sep
    THEN CHOOSE j \in 1..Len(s) : s[j] = sep /\ \A h \in 1..(j - 1) : s[h] # sep
    ELSE 0

\* str.split(sep) for a one-character sep: always at least one part.
RECURSIVE Split(_, _)
Split(s, sep) ==
    LET j == Find(s, sep) IN
    IF j = 0 THEN <<s>>
    ELSE <<SubSeq(s, 1, j - 1)>> \o Split(SubSeq(s, j + 1, Len(s)), sep)

\* No element of s occurs twice.
Distinct(s) == \A j, k \in 1..Len(s) : j # k => s[j] # s[k]

Entry(level, msg, about) == [level |-> level, msg |-> msg, about |-> about]

(***************************************************************************)
(* KeysProcessing.extract_table_name.  Returns the value and the lines it  *)
(* logs (the debug line is below the INFO level main() sets).              *)
(***************************************************************************)
extract_table_name_last_part(urn) ==
    LET parts == Split(urn, Comma) IN
    IF Len(parts) < 2
    THEN [ret |-> <<>>,
          log |-> <<Entry("WARNING", "URN does not contain enough parts", urn)>>]
    ELSE LET table_name == Last(Split(parts[Len(parts)], Dot)) IN
         [ret |-> table_name,
          log |-> <<Entry("INFO", "Extracted table name", table_name)>>]

extract_table_name(urn) ==
    LET parts == Split(urn, Comma) IN
    IF Len(parts) < 2
    THEN [ret |-> <<>>,
          log |-> <<Entry("WARNING", "URN does not contain enough parts", urn)>>]
    ELSE LET table_part == parts[Len(parts) - 1]
             table_name == Last(Split(table_part, Dot))
         IN [ret |-> table_name,
             log |-> <<Entry("INFO", "Extracted table name", table_name)>>]

(***************************************************************************)
(* JSON of the catalog's entity endpoint, as main() reads it:              *)
(* urn_json['responses'][urn]['aspects']['schemaMetadata']['value'].       *)
(* Aspects are a function from aspect name to value; a missing key is a    *)
(* KeyError in the code.                                                   *)
(***************************************************************************)
HasSchema(json, urn) ==
    /\ urn \in DOMAIN json.responses
    /\ "schemaMetadata" \in DOMAIN json.responses[urn].aspects

SchemaValue(json, urn) == json.responses[urn].aspects["schemaMetadata"].value

EntityJson(urn, aspects) == [responses |-> (urn :> [aspects |-> aspects])]

\* Order-preserving removal of repeats (pandas Series.unique()).
RECURSIVE Unique(_)
Unique(s) ==
    IF s = <<>> THEN <<>>
    ELSE LET front == Unique(SubSeq(s, 1, Len(s) - 1)) IN
         IF \E j \in 1..Len(front) : front[j] = Last(s) THEN front
         ELSE Append(front, Last(s))

\* The members of a finite set of integers, ascending.
RECURSIVE Ascending(_)
Ascending(S) ==
    IF S = {} THEN <<>>
    ELSE LET m == CHOOSE x \in S : \A y \in S : x <= y IN
         <<m>> \o Ascending(S \ {m})

\* The elements of s at the indices in S, in the order of s.
Filter(s, S) ==
    LET idx == Ascending(S) IN [k \in 1..Len(idx) |-> s[idx[k]]]

\* Length of the longest run of \w characters of s starting at index from.
RECURSIVE WordRun(_, _)
WordRun(s, from) ==
    IF from > Len(s) \/ s[from] \notin WordChars THEN 0
    ELSE 1 + WordRun(s, from + 1)

\* re.match(r'PK\w+', col): anchored at the start, not at the end.
MatchPK(col) ==
    /\ Len(col) >= 2 /\ col[1] = "P" /\ col[2] = "K"
    /\ WordRun(col, 3) >= 1

(***************************************************************************)
(* KeysProcessing.get_pks(urn, urn_json) on the fact table df.             *)
(***************************************************************************)
get_pks_first_key_only(df, urn, json) ==
    LET t == extract_table_name(urn)
        table_name == t.ret
    IN
    IF table_name = <<>>
    THEN [raised |-> "none", ret |-> <<>>,
          log |-> t.log \o <<Entry("WARNING", "Could not extract table name from URN", urn)>>]
    ELSE IF ~HasSchema(json, urn)
    THEN [raised |-> "KeyError", ret |-> <<>>, log |-> t.log]
    ELSE
    LET fields_raw == SchemaValue(json, urn).fields
        IsParent(row) == row.parent_table = table_name
        ParentKey(row) == row.parent_key
        found == \E j \in 1..Len(df) : IsParent(df[j])
        rows == Filter(df, {j \in 1..Len(df) : IsParent(df[j])})
        all == Unique([k \in 1..Len(rows) |-> ParentKey(rows[k])])
        keys == IF all = <<>> THEN <<>> ELSE <<all[1]>>
        logA == IF found
                THEN <<Entry("INFO", "found in parent_table column", table_name)>>
                ELSE <<Entry("INFO", "NOT found in parent_table column", table_name)>>
        IsPK(f) == MatchPK(f.fieldPath)
        Path(f) == f.fieldPath
        PKLine(f) == Entry("INFO", "Found PK column", f.fieldPath)
        pkfields == Filter(fields_raw, {j \in 1..Len(fields_raw) : IsPK(fields_raw[j])})
        cols == [k \in 1..Len(pkfields) |-> Path(pkfields[k])]
        pks == keys \o cols
    IN [raised |-> "none", ret |-> pks,
        log |-> t.log \o logA \o [k \in 1..Len(pkfields) |-> PKLine(pkfields[k])]
                \o <<Entry("INFO", "Primary keys for", <<table_name, pks>>)>>]

\* The variant that drops a key already in the list.
get_pks_dedup(df, urn, json) ==
    LET t == extract_table_name(urn)
        table_name == t.ret
    IN
    IF table_name = <<>>
    THEN [raised |-> "none", ret |-> <<>>,
          log |-> t.log \o <<Entry("WARNING", "Could not extract table name from URN", urn)>>]
    ELSE IF ~HasSchema(json, urn)
    THEN [raised |-> "KeyError", ret |-> <<>>, log |-> t.log]
    ELSE
    LET fields_raw == SchemaValue(json, urn).fields
        IsParent(row) == row.parent_table = table_name
        ParentKey(row) == row.parent_key
        found == \E j \in 1..Len(df) : IsParent(df[j])
        rows == Filter(df, {j \in 1..Len(df) : IsParent(df[j])})
        keys == IF found THEN Unique([k \in 1..Len(rows) |-> ParentKey(rows[k])])
                ELSE <<>>
        logA == IF found
                THEN <<Entry("INFO", "found in parent_table column", table_name)>>
                ELSE <<Entry("INFO", "NOT found in parent_table column", table_name)>>
        IsPK(f) == MatchPK(f.fieldPath)
        Path(f) == f.fieldPath
        PKLine(f) == Entry("INFO", "Found PK column", f.fieldPath)
        pkfields == Filter(fields_raw, {j \in 1..Len(fields_raw) : IsPK(fields_raw[j])})
        cols == [k \in 1..Len(pkfields) |-> Path(pkfields[k])]
        pks == Unique(keys \o cols)
    IN [raised |-> "none", ret |-> pks,
        log |-> t.log \o logA \o [k \in 1..Len(pkfields) |-> PKLine(pkfields[k])]
                \o <<Entry("INFO", "Primary keys for", <<table_name, pks>>)>>]

get_pks(df, urn, json) ==
    LET t == extract_table_name(urn)
        table_name == t.ret
    IN
    IF table_name = <<>>
    THEN [raised |-> "none", ret |-> <<>>,
          log |-> t.log \o <<Entry("WARNING", "Could not extract table name from URN", urn)>>]
    ELSE IF ~HasSchema(json, urn)
    THEN [raised |-> "KeyError", ret |-> <<>>, log |-> t.log]
    ELSE
    LET fields_raw == SchemaValue(json, urn).fields
        IsParent(row) == row.parent_table = table_name
        ParentKey(row) == row.parent_key
        found == \E j \in 1..Len(df) : IsParent(df[j])
        rows == Filter(df, {j \in 1..Len(df) : IsParent(df[j])})
        keys == IF found THEN Unique([k \in 1..Len(rows) |-> ParentKey(rows[k])])
                ELSE <<>>
        logA == IF found
                THEN <<Entry("INFO", "found in parent_table column", table_name)>>
                ELSE <<Entry("INFO", "NOT found in parent_table column", table_name)>>
        IsPK(f) == MatchPK(f.fieldPath)
        Path(f) == f.fieldPath
        PKLine(f) == Entry("INFO", "Found PK column", f.fieldPath)
        pkfields == Filter(fields_raw, {j \in 1..Len(fields_raw) : IsPK(fields_raw[j])})
        cols == [k \in 1..Len(pkfields) |-> Path(pkfields[k])]
        pks == keys \o cols
    IN [raised |-> "none", ret |-> pks,
        log |-> t.log \o logA \o [k \in 1..Len(pkfields) |-> PKLine(pkfields[k])]
                \o <<Entry("INFO", "Primary keys for", <<table_name, pks>>)>>]

(***************************************************************************)
(* KeysProcessing.get_fks(urn, server, db, schema) on the fact table df.   *)
(***************************************************************************)
DatasetUrn(server, db, schema, table) ==
    <<"urn:li:dataset:(urn:li:dataPlatform:mssql", Comma, server, Dot, db, Dot,
      schema, Dot>> \o table \o <<Comma, "DEV)">>

get_fks_parent_rows(df, urn, server, db, schema) ==
    LET t == extract_table_name(urn)
        table_name == t.ret
    IN
    IF table_name = <<>>
    THEN [ret |-> <<>>,
          log |-> t.log \o <<Entry("PRINT", "Could not extract table name from URN", urn)>>]
    ELSE
    LET IsChild(row) == row.parent_table = table_name
        Fk(row) == [name |-> row.child_key,
                    sourceFields |-> <<row.child_key>>,
                    foreignFields |-> <<row.parent_key>>,
                    foreignDataset |-> DatasetUrn(server, db, schema, row.parent_table)]
        found == \E j \in 1..Len(df) : IsChild(df[j])
        rows == Filter(df, {j \in 1..Len(df) : IsChild(df[j])})
        fks == [k \in 1..Len(rows) |-> Fk(rows[k])]
    IN [ret |-> fks,
        log |-> t.log
                \o (IF found
                    THEN <<Entry("INFO", "found in child_table column", table_name)>>
                    ELSE <<Entry("WARNING", "NOT found in child_table column", table_name)>>)
                \o <<Entry("INFO", "Foreign keys for", <<table_name, fks>>)>>]

\* The variant that takes the environment segment from the identifier given.
get_fks_env_of_urn(df, urn, server, db, schema) ==
    LET t == extract_table_name(urn)
        table_name == t.ret
    IN
    IF table_name = <<>>
    THEN [ret |-> <<>>,
          log |-> t.log \o <<Entry("PRINT", "Could not extract table name from URN", urn)>>]
    ELSE
    LET IsChild(row) == row.child_table = table_name
        Fk(row) == [name |-> row.child_key,
                    sourceFields |-> <<row.child_key>>,
                    foreignFields |-> <<row.parent_key>>,
                    foreignDataset |-> SubSeq(DatasetUrn(server, db, schema, row.parent_table),
                                              1, 9 + Len(row.parent_table))
                                       \o <<Last(urn)>>]
        found == \E j \in 1..Len(df) : IsChild(df[j])
        fks_info == Filter(df, {j \in 1..Len(df) : IsChild(df[j])})
        fks == IF found THEN [k \in 1..Len(fks_info) |-> Fk(fks_info[k])] ELSE <<>>
    IN [ret |-> fks,
        log |-> t.log
                \o (IF found
                    THEN <<Entry("INFO", "found in child_table column", table_name)>>
                    ELSE <<Entry("WARNING", "NOT found in child_table column", table_name)>>)
                \o <<Entry("INFO", "Foreign keys for", <<table_name, fks>>)>>]

\* The variant whose identifier lacks the dot between schema and table.
get_fks_missing_dot(df, urn, server, db, schema) ==
    LET t == extract_table_name(urn)
        table_name == t.ret
    IN
    IF table_name = <<>>
    THEN [ret |-> <<>>,
          log |-> t.log \o <<Entry("PRINT", "Could not extract table name from URN", urn)>>]
    ELSE
    LET IsChild(row) == row.child_table = table_name
        Fk(row) == [name |-> row.child_key,
                    sourceFields |-> <<row.child_key>>,
                    foreignFields |-> <<row.parent_key>>,
                    foreignDataset |-> <<"urn:li:dataset:(urn:li:dataPlatform:mssql", Comma,
                                         server, Dot, db, Dot, schema>>
                                       \o row.parent_table \o <<Comma, "DEV)">>]
        found == \E j \in 1..Len(df) : IsChild(df[j])
        fks_info == Filter(df, {j \in 1..Len(df) : IsChild(df[j])})
        fks == IF found THEN [k \in 1..Len(fks_info) |-> Fk(fks_info[k])] ELSE <<>>
    IN [ret |-> fks,
        log |-> t.log
                \o (IF found
                    THEN <<Entry("INFO", "found in child_table column", table_name)>>
                    ELSE <<Entry("WARNING", "NOT found in child_table column", table_name)>>)
                \o <<Entry("INFO", "Foreign keys for", <<table_name, fks>>)>>]

get_fks(df, urn, server, db, schema) ==
    LET t == extract_table_name(urn)
        table_name == t.ret
    IN
    IF table_name = <<>>
    THEN [ret |-> <<>>,
          log |-> t.log \o <<Entry("PRINT", "Could not extract table name from URN", urn)>>]
    ELSE
    LET IsChild(row) == row.child_table = table_name
        Fk(row) == [name |-> row.child_key,
                    sourceFields |-> <<row.child_key>>,
                    foreignFields |-> <<row.parent_key>>,
                    foreignDataset |-> DatasetUrn(server, db, schema, row.parent_table)]
        found == \E j \in 1..Len(df) : IsChild(df[j])
        fks_info == Filter(df, {j \in 1..Len(df) : IsChild(df[j])})
        fks == IF found THEN [k \in 1..Len(fks_info) |-> Fk(fks_info[k])] ELSE <<>>
    IN [ret |-> fks,
        log |-> t.log
                \o (IF found
                    THEN <<Entry("INFO", "found in child_table column", table_name)>>
                    ELSE <<Entry("WARNING", "NOT found in child_table column", table_name)>>)
                \o <<Entry("INFO", "Foreign keys for", <<table_name, fks>>)>>]

(***************************************************************************)
(* datahub_tools.TYPE_CLASS_MAP and DatahubCustomBuilder.                  *)
(***************************************************************************)
TYPE_CLASS_MAP ==
    [NumberType |-> "NumberTypeClass", StringType |-> "StringTypeClass",
     BooleanType |-> "BooleanTypeClass", BytesType |-> "BytesTypeClass",
     DateType |-> "DateTypeClass", TimeType |-> "TimeTypeClass",
     EnumType |-> "EnumTypeClass", NullType |-> "NullTypeClass",
     MapType |-> "MapTypeClass", ArrayType |-> "ArrayTypeClass",
     UnionType |-> "UnionTypeClass", RecordType |-> "RecordTypeClass"]

TypeTag(field) == field.type.type["__type"]

\* SchemaFieldClass(**{**field, "type": SchemaFieldDataTypeClass(type=type_cls())})
build_schema_field_default_type(field) ==
    LET type_str == TypeTag(field) IN
    [raised |-> "none",
     ret |-> [field EXCEPT !.type =
                 [type |-> IF type_str \in DOMAIN TYPE_CLASS_MAP
                           THEN TYPE_CLASS_MAP[type_str] ELSE "NullTypeClass"]]]

build_schema_field(field) ==
    LET type_str == TypeTag(field) IN
    IF type_str \notin DOMAIN TYPE_CLASS_MAP
    THEN [raised |-> "ValueError", ret |-> <<>>]
    ELSE [raised |-> "none",
          ret |-> [field EXCEPT !.type = [type |-> TYPE_CLASS_MAP[type_str]]]]

make_field_urn(dataset_urn, field_path) ==
    <<"urn:li:schemaField:(">> \o dataset_urn \o <<Comma>> \o field_path \o <<")">>

(***************************************************************************)
(* DatahubCustomExtractor.extract_schema_field_metadata(urn, dataset_json) *)
(***************************************************************************)
\* The variant that starts a new version instead of copying the fetched one.
extract_schema_field_metadata_fresh_version(urn, dataset_json) ==
    IF ~HasSchema(dataset_json, urn)
    THEN [raised |-> "KeyError", ret |-> <<>>]
    ELSE
    LET value == SchemaValue(dataset_json, urn)
        fields_raw == value.fields
        built == [j \in 1..Len(fields_raw) |-> build_schema_field(fields_raw[j])]
    IN
    IF \E j \in 1..Len(built) : built[j].raised # "none"
    THEN [raised |-> "ValueError", ret |-> <<>>]
    ELSE [raised |-> "none",
          ret |-> [schema_name |-> value.schemaName,
                   platform |-> value.platform,
                   version |-> 0,
                   hash |-> "",
                   platform_schema |-> value.platformSchema,
                   fields |-> [j \in 1..Len(built) |-> built[j].ret]]]

extract_schema_field_metadata(urn, dataset_json) ==
    IF ~HasSchema(dataset_json, urn)
    THEN [raised |-> "KeyError", ret |-> <<>>]
    ELSE
    LET value == SchemaValue(dataset_json, urn)
        fields_raw == value.fields
        built == [j \in 1..Len(fields_raw) |-> build_schema_field(fields_raw[j])]
    IN
    IF \E j \in 1..Len(built) : built[j].raised # "none"
    THEN [raised |-> "ValueError", ret |-> <<>>]
    ELSE [raised |-> "none",
          ret |-> [schema_name |-> value.schemaName,
                   platform |-> value.platform,
                   version |-> value.version,
                   hash |-> value.hash,
                   platform_schema |-> value.platformSchema,
                   fields |-> [j \in 1..Len(built) |-> built[j].ret]]]

(***************************************************************************)
(* DatahubCustomEmitter.emit_keys up to the event it hands to emit():      *)
(* the constraints, the SchemaMetadataClass keyword arguments (a key that  *)
(* is not set is absent from the object), the snapshot and the event.      *)
(***************************************************************************)
fk_constraints(urn, fks) ==
    [k \in 1..Len(fks) |->
        [name |-> fks[k].name,
         sourceFields |-> [h \in 1..Len(fks[k].sourceFields) |->
                              make_field_urn(urn, fks[k].sourceFields[h])],
         foreignFields |-> [h \in 1..Len(fks[k].foreignFields) |->
                               make_field_urn(fks[k].foreignDataset,
                                              fks[k].foreignFields[h])],
         foreignDataset |-> fks[k].foreignDataset]]

schema_metadata_kwargs_always_keys(urn, sm, pks, fks) ==
    [schemaName |-> sm.schema_name, platform |-> sm.platform,
     version |-> sm.version, hash |-> sm.hash,
     platformSchema |-> sm.platform_schema, fields |-> sm.fields,
     primaryKeys |-> pks, foreignKeys |-> fk_constraints(urn, fks)]

schema_metadata_kwargs(urn, sm, pks, fks) ==
    [schemaName |-> sm.schema_name, platform |-> sm.platform,
     version |-> sm.version, hash |-> sm.hash,
     platformSchema |-> sm.platform_schema, fields |-> sm.fields]
    @@ (IF pks # <<>> THEN [primaryKeys |-> pks] ELSE <<>>)
    @@ (IF fk_constraints(urn, fks) # <<>>
        THEN [foreignKeys |-> fk_constraints(urn, fks)] ELSE <<>>)

\* MetadataChangeEventClass(proposedSnapshot=DatasetSnapshotClass(urn, [aspect]))
MetadataChangeEvent(urn, sm, pks, fks) ==
    [proposedSnapshot |->
        [urn |-> urn,
         aspects |-> <<[aspect |-> "schemaMetadata",
                        object |-> schema_metadata_kwargs(urn, sm, pks, fks)]>>]]

\* What the catalog stores for an emitted aspect: the entity JSON form, in
\* which a field's type class is written back as its "__type" tag.
TagOfClass(cls) == CHOOSE t \in DOMAIN TYPE_CLASS_MAP : TYPE_CLASS_MAP[t] = cls

StoredField(f) == [f EXCEPT !.type = [type |-> ("__type" :> TagOfClass(f.type.type))]]

StoredAspect(object) ==
    [value |-> [object EXCEPT !.fields =
                   [j \in 1..Len(object.fields) |-> StoredField(object.fields[j])]]]

\* The catalog after it applies an event: the aspect replaces the stored one.
Applied(cat, mce) ==
    LET snap == mce.proposedSnapshot
        asp == snap.aspects[1]
    IN [cat EXCEPT ![snap.urn] = (asp.aspect :> StoredAspect(asp.object)) @@ @]

(***************************************************************************)
(* Values of main(): the fixed domain / server / db / schema                *)
(* (main.py:25-28).                                                        *)
(***************************************************************************)
domain == <<"ucube_cubedevtest">>
server == "ekofisk"
db == "CubeDevTest"
schema == "UCube"

TableA == <<"A">>
TableB == <<"B">>
UrnA == DatasetUrn(server, db, schema, TableA)
UrnB == DatasetUrn(server, db, schema, TableB)
\* An identifier with no comma: no table name can be taken from it.
UrnBad == <<"u", "r", "n", ":", "x">>
\* The identifier of table A in another environment.
UrnProd ==
    <<"urn:li:dataset:(urn:li:dataPlatform:mssql", Comma, server, Dot, db, Dot,
      schema, Dot>> \o TableA \o <<Comma, "PROD)">>

\* The docstring's example of extract_table_name.
ExampleUrn ==
    <<"urn:li:dataset:(urn:li:dataPlatform:mssql", Comma, "ekofisk", Dot,
      "CubeDevTest", Dot, "UCube", Dot,
      "B", "r", "i", "d", "g", "e", "C", "o", "m", "p", "a", "n", "y",
      "S", "u", "b", "s", "i", "d", "i", "a", "r", "y", Comma, "DEV)">>

ExampleTable ==
    <<"B", "r", "i", "d", "g", "e", "C", "o", "m", "p", "a", "n", "y",
      "S", "u", "b", "s", "i", "d", "i", "a", "r", "y">>

\* A raw field of the entity JSON: field["type"]["type"]["__type"] is its tag.
RawField(path, tag) ==
    [fieldPath |-> path, nativeDataType |-> "int",
     type |-> [type |-> ("__type" :> tag)]]

\* The value of a schemaMetadata aspect with the given fields and stored keys.
SchemaAspect(fields, keys) ==
    [value |-> [schemaName |-> "UCube", platform |-> "urn:li:dataPlatform:mssql",
                version |-> 0, hash |-> "", platformSchema |-> "MySqlDDL",
                fields |-> fields] @@ keys]

NoKeys == <<>>

(***************************************************************************)
(* Inputs of the single-call specifications.                                *)
(***************************************************************************)
ParseAlphabet == {Comma, Dot, "a", "b"}
ParseInputs == SeqsUpTo(ParseAlphabet, MaxLen) \cup {ExampleUrn}

KeyUrns == {UrnA, UrnB, UrnBad, UrnProd}
FactRows ==
    [parent_table : {TableA, TableB}, parent_key : {<<"P", "K", "a">>, <<"k">>},
     child_table : {TableA, TableB}, child_key : {<<"f">>}]
FieldPaths ==
    {<<"P", "K", "a">>, <<"P", "K">>, <<"x", "P", "K", "a">>, <<"P", "K", ".", "a">>}
KeyFields == {RawField(p, "StringType") : p \in FieldPaths}
KeyJsons(urn) ==
    {EntityJson(urn, "schemaMetadata" :> SchemaAspect(fl, NoKeys)) :
        fl \in SeqsUpTo(KeyFields, MaxFields)}
    \cup {EntityJson(urn, <<>>)}

\* The state of main() while a single method is called on its own.
Idle ==
    /\ pc = "idle" /\ domain_entities = <<>> /\ keys_db = <<>> /\ catalog = <<>>
    /\ urns = <<>> /\ fks_info_df = <<>> /\ i = 0 /\ urn_json = <<>>
    /\ primary_keys = <<>> /\ foreign_keys = <<>> /\ schema_metadata = <<>>
    /\ fetched = <<>> /\ emitted = <<>> /\ emitter_closed = FALSE
    /\ console = <<>> /\ error = "none"
    /\ catalog0 = <<>> /\ db_conns = <<>> /\ sessions = <<>> /\ df_stats = <<>>

main_vars == <<pc, domain_entities, keys_db, catalog, urns, fks_info_df, i,
               urn_json, primary_keys, foreign_keys, schema_metadata, fetched,
               emitted, emitter_closed, error, catalog0, db_conns, sessions,
               df_stats>>

(***************************************************************************)
(* SpecParse: one call of extract_table_name on any short string.          *)
(***************************************************************************)
InitParse ==
    /\ Idle
    /\ \E s \in ParseInputs : call = [op |-> "input", urn |-> s]

CallExtractTableName ==
    /\ pc = "idle" /\ call.op = "input" /\ DOMAIN call = {"op", "urn"}
    /\ LET r == extract_table_name(call.urn) IN
       /\ call' = [op |-> "extract_table_name", urn |-> call.urn, ret |-> r.ret]
       /\ console' = console \o r.log
    /\ UNCHANGED main_vars

NextParse == CallExtractTableName

SpecParse == InitParse /\ [][NextParse]_vars

(***************************************************************************)
(* SpecKeys: one call of get_pks or of get_fks on any small fact table.    *)
(***************************************************************************)
InitKeys ==
    /\ Idle
    /\ \E u \in KeyUrns, d \in SeqsUpTo(FactRows, MaxRows) :
          \E j \in KeyJsons(u) :
             call = [op |-> "input", urn |-> u, df |-> d, json |-> j]

CallGetPks ==
    /\ pc = "idle" /\ call.op = "input" /\ "df" \in DOMAIN call
    /\ LET r == get_pks(call.df, call.urn, call.json) IN
       /\ call' = [op |-> "get_pks", urn |-> call.urn, df |-> call.df,
                   json |-> call.json, raised |-> r.raised, ret |-> r.ret]
       /\ console' = console \o r.log
    /\ UNCHANGED main_vars

CallGetFks ==
    /\ pc = "idle" /\ call.op = "input" /\ "df" \in DOMAIN call
    /\ LET r == get_fks(call.df, call.urn, server, db, schema) IN
       /\ call' = [op |-> "get_fks", urn |-> call.urn, df |-> call.df,
                   json |-> call.json, raised |-> "none", ret |-> r.ret]
       /\ console' = console \o r.log
    /\ UNCHANGED main_vars

NextKeys == CallGetPks \/ CallGetFks

SpecKeys == InitKeys /\ [][NextKeys]_vars

(***************************************************************************)
(* Claims about the single calls.                                          *)
(***************************************************************************)
Max(S) == CHOOSE x \in S : \A y \in S : y <= x
Range(s) == {s[j] : j \in 1..Len(s)}
Positions(s, c) == {j \in 1..Len(s) : s[j] = c}

\* C1: extract_table_name returns, for an identifier with at least two
\* comma-separated segments, the text after the last '.' of the segment that
\* lies between the last comma and the comma before it (the whole segment
\* when it has no '.'); for an identifier with no comma it returns the empty
\* string; every input string yields a value (the call is never left
\* without a result); the docstring's example gives BridgeCompanySubsidiary.
C1_ParseTableName ==
    call.op = "extract_table_name" =>
        LET s == call.urn
            commas == Positions(s, Comma)
        IN
        /\ commas = {} => call.ret = <<>>
        /\ commas # {} =>
              LET last == Max(commas)
                  prev == Max({j \in commas : j < last} \cup {0})
                  seg == SubSeq(s, prev + 1, last - 1)
                  from == Max(Positions(seg, Dot) \cup {0})
              IN call.ret = SubSeq(seg, from + 1, Len(seg))
        /\ s = ExampleUrn => call.ret = ExampleTable

\* C1 witness: the docstring's example has been parsed.
C1_Witness ==
    /\ call.op = "extract_table_name"
    /\ call.urn = ExampleUrn /\ call.ret = ExampleTable

\* '^PK\w+': the literal PK, then at least one word character.
StartsWithPKWord(p) ==
    Len(p) >= 3 /\ p[1] = "P" /\ p[2] = "K" /\ p[3] \in WordChars

\* C2: when the identifier's table name resolves to T and the snapshot has a
\* field list, the list get_pks returns contains the parent_key of every fact
\* row whose parent_table is T and every field path of the snapshot that starts
\* with PK followed by a word character.
C2_PrimaryKeysSuperset ==
    (call.op = "get_pks" /\ extract_table_name(call.urn).ret # <<>>
        /\ HasSchema(call.json, call.urn)) =>
        LET T == extract_table_name(call.urn).ret
            fields == SchemaValue(call.json, call.urn).fields
        IN
        /\ call.raised = "none"
        /\ \A j \in 1..Len(call.df) :
              call.df[j].parent_table = T => call.df[j].parent_key \in Range(call.ret)
        /\ \A j \in 1..Len(fields) :
              StartsWithPKWord(fields[j].fieldPath) =>
                  fields[j].fieldPath \in Range(call.ret)

\* C2 witness: T is the parent of two rows with different keys, the snapshot
\* has a PK-prefixed field and one that is not, and get_pks has returned.
C2_Witness ==
    /\ call.op = "get_pks" /\ call.urn = UrnA
    /\ HasSchema(call.json, call.urn)
    /\ Len(call.df) = 2
    /\ call.df[1].parent_table = TableA /\ call.df[2].parent_table = TableA
    /\ call.df[1].parent_key # call.df[2].parent_key
    /\ \E j \in 1..Len(SchemaValue(call.json, call.urn).fields) :
          SchemaValue(call.json, call.urn).fields[j].fieldPath = <<"P", "K", "a">>
    /\ \E j \in 1..Len(SchemaValue(call.json, call.urn).fields) :
          SchemaValue(call.json, call.urn).fields[j].fieldPath = <<"P", "K">>
    /\ Len(call.ret) = 3

\* C3: when the identifier's table name resolves to T, get_fks returns one
\* constraint per fact row whose child_table is T, in row order and none for
\* any other row, each with name = child_key, sourceFields = [child_key] and
\* foreignFields = [parent_key] of its row; with no such row it returns [].
C3_ForeignKeysPerChildRow ==
    (call.op = "get_fks" /\ extract_table_name(call.urn).ret # <<>>) =>
        LET T == extract_table_name(call.urn).ret
            M == {j \in 1..Len(call.df) : call.df[j].child_table = T}
        IN
        /\ Len(call.ret) = Cardinality(M)
        /\ M = {} => call.ret = <<>>
        /\ \A k \in 1..Len(call.ret) :
              LET j == CHOOSE h \in M : Cardinality({g \in M : g <= h}) = k
                  row == call.df[j]
              IN /\ call.ret[k].name = row.child_key
                 /\ call.ret[k].sourceFields = <<row.child_key>>
                 /\ call.ret[k].foreignFields = <<row.parent_key>>

\* C3 witness: a table with one row whose child is T and one whose child is
\* not, and get_fks has returned the single constraint of the first.
C3_Witness ==
    /\ call.op = "get_fks" /\ call.urn = UrnB
    /\ Len(call.df) = 2
    /\ call.df[1].child_table = TableA /\ call.df[2].child_table = TableB
    /\ call.df[1].parent_key # call.df[2].parent_key
    /\ Len(call.ret) = 1
    /\ call.ret[1].foreignFields = <<call.df[2].parent_key>>

(***************************************************************************)
(* DatahubCustomExtractor.get_urns_for_domain.  A response of the GraphQL  *)
(* endpoint is its status code and, in order, the domains of listDomains,  *)
(* each with its urn and the entity urns of its searchResults.             *)
(***************************************************************************)
MaxDomains == 2    \* most domains a listDomains response holds in a single call
MaxListed == 1     \* most entities per domain of a response in a single call

DomainsCount == 10     \* listDomains(input: {start: 0, count: 10})
EntitiesCount == 100   \* entities(input: {start: 0, count: 100})

Take(s, n) == SubSeq(s, 1, IF Len(s) < n THEN Len(s) ELSE n)

\* domain_urn = f'urn:li:domain:{domain}'
DomainUrn(dom) == <<"urn:li:domain:">> \o dom

DomainResult(name, entities) == [urn |-> DomainUrn(name), entities |-> entities]

\* What the endpoint answers for the stored domains it matched: the first
\* DomainsCount of them, each with the first EntitiesCount of its entities.
ListDomainsResponse(status, matched) ==
    [status_code |-> status,
     domains |-> [k \in 1..Len(Take(matched, DomainsCount)) |->
                     DomainResult(matched[k].name,
                                  Take(matched[k].entities, EntitiesCount))]]

\* The variant that takes the first domain of the response, matching or not.
get_urns_for_domain_first_listed(response, dom) ==
    LET start == <<Entry("INFO", "Getting URNs for domain", dom)>> IN
    IF response.status_code # 200
    THEN [raised |-> "Exception", ret |-> <<>>,
          log |-> start \o <<Entry("PRINT", "Error fetching URNs", response.status_code)>>]
    ELSE IF response.domains = <<>>
         THEN [raised |-> "IndexError", ret |-> <<>>, log |-> start]
         ELSE [raised |-> "none", ret |-> response.domains[1].entities,
               log |-> start \o <<Entry("INFO", "Fetched urns for domain", dom)>>]

get_urns_for_domain(response, dom) ==
    LET start == <<Entry("INFO", "Getting URNs for domain", dom)>>
        domain_urn == DomainUrn(dom)
        domain_results ==
            Filter(response.domains,
                   {k \in DOMAIN response.domains : response.domains[k].urn = domain_urn})
    IN
    IF response.status_code # 200
    THEN [raised |-> "Exception", ret |-> <<>>,
          log |-> start \o <<Entry("PRINT", "Error fetching URNs", response.status_code)>>]
    ELSE IF domain_results = <<>>
         THEN [raised |-> "IndexError", ret |-> <<>>, log |-> start]
         ELSE [raised |-> "none", ret |-> domain_results[1].entities,
               log |-> start \o <<Entry("INFO", "Fetched urns for domain", dom)>>]

(***************************************************************************)
(* SpecList: one call of get_urns_for_domain on any small response.        *)
(***************************************************************************)
DomainNames == {<<"d">>, <<"d", "2">>, <<"e">>}
StatusCodes == {200, 401, 500}

\* Responses list every domain once.
ListedDomains ==
    {ds \in SeqsUpTo(DomainNames \X SeqsUpTo({UrnA, UrnB}, MaxListed), MaxDomains) :
        \A k, h \in DOMAIN ds : k # h => ds[k][1] # ds[h][1]}

InitList ==
    /\ Idle
    /\ \E status \in StatusCodes, ds \in ListedDomains, name \in DomainNames :
          call = [op |-> "input", domain |-> name,
                  response |-> ListDomainsResponse(status,
                      [k \in DOMAIN ds |-> [name |-> ds[k][1], entities |-> ds[k][2]]])]

CallGetUrnsForDomain ==
    /\ pc = "idle" /\ call.op = "input" /\ "response" \in DOMAIN call
    /\ LET r == get_urns_for_domain(call.response, call.domain) IN
       /\ call' = [op |-> "get_urns_for_domain", domain |-> call.domain,
                   response |-> call.response, raised |-> r.raised, ret |-> r.ret]
       /\ console' = console \o r.log
    /\ UNCHANGED main_vars

NextList == CallGetUrnsForDomain

SpecList == InitList /\ [][NextList]_vars

\* C13: on status 200 get_urns_for_domain returns the entities listed under
\* the domain of the response whose urn is 'urn:li:domain:<domain>', and no
\* entity taken from another domain; on any other status it raises.
C13_ExactDomainOnly ==
    call.op = "get_urns_for_domain" =>
        LET target == <<"urn:li:domain:">> \o call.domain
            hits == {k \in DOMAIN call.response.domains :
                        call.response.domains[k].urn = target}
        IN
        /\ call.response.status_code # 200 => call.raised = "Exception"
        /\ (call.response.status_code = 200 /\ hits # {}) =>
              /\ call.raised = "none"
              /\ \A k \in hits : call.ret = call.response.domains[k].entities

\* C13 witness: the wanted domain is listed second, after a domain with
\* other entities, and the call returned the entities of the second.
C13_Witness ==
    /\ call.op = "get_urns_for_domain" /\ call.response.status_code = 200
    /\ Len(call.response.domains) = 2
    /\ call.response.domains[2].urn = <<"urn:li:domain:">> \o call.domain
    /\ call.response.domains[1].entities = <<UrnA>>
    /\ call.ret = <<UrnB>>

(***************************************************************************)
(* Spec: a run of main() of datahub_foreign_keys.  The catalog, the        *)
(* database and the outcome of every network call are the environment.     *)
(***************************************************************************)
Entities == {UrnA, UrnB, UrnBad}

KeyA == <<"k">>
KeyPK == <<"P", "K", "a">>
KeyF == <<"f">>
Row(pt, pk, ct, ck) ==
    [parent_table |-> pt, parent_key |-> pk, child_table |-> ct, child_key |-> ck]

\* The key-fact tables the SQL script may return.
FactTables ==
    {<<>>,
     <<Row(TableA, KeyPK, TableB, KeyF)>>,
     <<Row(TableA, KeyA, TableB, KeyF), Row(TableB, KeyA, TableA, KeyF)>>}

\* What the catalog may hold for an entity before the run: no schemaMetadata
\* aspect; a schema with no PK column; a schema with a PK column and keys
\* stored by an earlier run; a schema with a type tag outside TYPE_CLASS_MAP.
StoredAspects ==
    {<<>>,
     "schemaMetadata" :> SchemaAspect(<<RawField(KeyA, "StringType")>>, NoKeys),
     "schemaMetadata" :> SchemaAspect(<<RawField(KeyPK, "NumberType"),
                                        RawField(KeyF, "StringType")>>,
                                      [primaryKeys |-> <<KeyF>>]),
     "schemaMetadata" :> SchemaAspect(<<RawField(KeyA, "NumberType"),
                                        RawField(KeyF, "FixedType")>>, NoKeys)}

Init ==
    /\ pc = "list_urns"
    /\ domain_entities \in SeqsUpTo(Entities, MaxUrns)
    /\ keys_db \in FactTables
    /\ catalog \in [Entities -> StoredAspects]
    /\ urns = <<>> /\ fks_info_df = <<>> /\ i = 0 /\ urn_json = <<>>
    /\ primary_keys = <<>> /\ foreign_keys = <<>> /\ schema_metadata = <<>>
    /\ fetched = <<>> /\ emitted = <<>> /\ emitter_closed = FALSE
    /\ console = <<>> /\ error = "none"
    /\ call = [op |-> "none"]
    /\ catalog0 = catalog /\ db_conns = <<>> /\ sessions = <<>> /\ df_stats = <<>>

env_vars == <<domain_entities, keys_db, catalog0>>
stats_vars == <<sessions, df_stats>>
loop_vars == <<urn_json, primary_keys, foreign_keys, schema_metadata>>

\* An exception no frame of main() catches: the run ends.
Raise(exc) == pc' = "aborted" /\ error' = exc

\* main.py:31-33  urns = extractor.get_urns_for_domain(domain)
\* The search matches the one domain of the run, which holds domain_entities.
ListUrns ==
    /\ pc = "list_urns"
    /\ \E status \in {200, 500} :
          LET response == ListDomainsResponse(status,
                              <<[name |-> domain, entities |-> domain_entities]>>)
              r == get_urns_for_domain(response, domain)
          IN
          IF r.raised # "none"
          THEN /\ Raise(r.raised)
               /\ console' = console \o r.log
               /\ UNCHANGED urns
          ELSE /\ urns' = r.ret
               /\ pc' = "fetch_keys"
               /\ console' = console \o r.log \o
                      <<Entry("INFO", "Found urns in domain", Len(r.ret))>>
               /\ UNCHANGED error
    /\ UNCHANGED <<env_vars, stats_vars, db_conns, loop_vars, catalog, fks_info_df,
                   i, fetched, emitted, emitter_closed, call>>

\* A pyodbc connection a function opened, and whether close() has run on it.
Conn(by, state) == [by |-> by, state |-> state]
OpenConns == {k \in DOMAIN db_conns : db_conns[k].state = "open"}

\* The variant that enters the loop with the first row of the result only.
FetchKeys_first_row_only ==
    /\ pc = "fetch_keys"
    /\ fks_info_df' = Take(keys_db, 1)
    /\ i' = 1
    /\ pc' = "loop"
    /\ db_conns' = Append(db_conns, Conn("fetch_foreign_keys_info", "closed"))
    /\ UNCHANGED <<env_vars, stats_vars, loop_vars, catalog, urns, fetched, emitted,
                   emitter_closed, console, error, call>>

\* main.py:36-42  fks_info_df = mssql_client.fetch_foreign_keys_info()
\* key_extractor.py:18-26: connect, read_sql, return; the function holds no
\* close(), no with and no finally.  On return the local conn is dropped and
\* the reference count closes the connection; when read_sql raises, the
\* traceback keeps the frame and its conn, so the connection stays open.
FetchKeys ==
    /\ pc = "fetch_keys"
    /\ \E outcome \in {"connect_failed", "query_failed", "ok"} :
          CASE outcome = "connect_failed" ->
                 /\ Raise("pyodbc.Error")
                 /\ UNCHANGED <<fks_info_df, console, i, db_conns>>
            [] outcome = "query_failed" ->
                 /\ Raise("pyodbc.Error")
                 /\ db_conns' = Append(db_conns, Conn("fetch_foreign_keys_info", "open"))
                 /\ UNCHANGED <<fks_info_df, console, i>>
            [] outcome = "ok" ->
                 /\ fks_info_df' = keys_db
                 /\ i' = 1
                 /\ pc' = "loop"
                 /\ db_conns' = Append(db_conns, Conn("fetch_foreign_keys_info", "closed"))
                 /\ console' = console \o
                      <<Entry("INFO", "Fetched foreign key information from the database", <<>>),
                        Entry("INFO", "Fetched foreign keys info from MSSQL database with rows",
                              Len(keys_db))>>
                 /\ UNCHANGED error
    /\ UNCHANGED <<env_vars, stats_vars, loop_vars, catalog, urns, fetched, emitted,
                   emitter_closed, call>>

\* main.py:44-48  for urn in urns: urn_json = extractor.get_dataset_json(urn)
FetchDataset_swallow_error ==
    /\ pc = "loop" /\ i <= Len(urns)
    /\ \E ok \in BOOLEAN :
          IF ~ok
          THEN /\ i' = i + 1
               /\ fetched' = Append(fetched, [urn |-> urns[i], at |-> i, outcome |-> "failed"])
               /\ console' = console \o
                      <<Entry("INFO", "Processing URN", urns[i]),
                        Entry("ERROR", "An error occurred", urns[i])>>
               /\ UNCHANGED <<urn_json, pc, error>>
          ELSE /\ urn_json' = EntityJson(urns[i], catalog[urns[i]])
               /\ fetched' = Append(fetched, [urn |-> urns[i], at |-> i, outcome |-> "ok"])
               /\ pc' = "get_pks"
               /\ console' = Append(console, Entry("INFO", "Processing URN", urns[i]))
               /\ UNCHANGED <<error, i>>
    /\ UNCHANGED <<env_vars, stats_vars, db_conns, catalog, urns, fks_info_df, primary_keys,
                   foreign_keys, schema_metadata, emitted, emitter_closed, call>>

FetchDataset ==
    /\ pc = "loop" /\ i <= Len(urns)
    /\ \E ok \in BOOLEAN :
          IF ~ok
          THEN /\ Raise("RuntimeError")
               /\ fetched' = Append(fetched, [urn |-> urns[i], at |-> i, outcome |-> "failed"])
               /\ console' = console \o
                      <<Entry("INFO", "Processing URN", urns[i]),
                        Entry("ERROR", "An error occurred", urns[i])>>
               /\ UNCHANGED urn_json
          ELSE /\ urn_json' = EntityJson(urns[i], catalog[urns[i]])
               /\ fetched' = Append(fetched, [urn |-> urns[i], at |-> i, outcome |-> "ok"])
               /\ pc' = "get_pks"
               /\ console' = Append(console, Entry("INFO", "Processing URN", urns[i]))
               /\ UNCHANGED error
    /\ UNCHANGED <<env_vars, stats_vars, db_conns, catalog, urns, fks_info_df, i, primary_keys,
                   foreign_keys, schema_metadata, emitted, emitter_closed, call>>

\* The variant that keeps the primary keys the catalog already stores and
\* appends the inferred ones.
GetPks_keep_stored ==
    /\ pc = "get_pks"
    /\ LET r == get_pks(fks_info_df, urns[i], urn_json)
           value == IF HasSchema(urn_json, urns[i])
                    THEN SchemaValue(urn_json, urns[i]) ELSE <<>>
           stored == IF "primaryKeys" \in DOMAIN value THEN value.primaryKeys ELSE <<>>
       IN
       /\ console' = console \o r.log
       /\ IF r.raised # "none"
          THEN Raise(r.raised) /\ UNCHANGED primary_keys
          ELSE primary_keys' = stored \o r.ret /\ pc' = "get_fks" /\ UNCHANGED error
    /\ UNCHANGED <<env_vars, stats_vars, db_conns, catalog, urns, fks_info_df, i,
                   urn_json, foreign_keys, schema_metadata, fetched, emitted,
                   emitter_closed, call>>

\* main.py:50  primary_keys = keys_processor.get_pks(urn, urn_json)
GetPks ==
    /\ pc = "get_pks"
    /\ LET r == get_pks(fks_info_df, urns[i], urn_json) IN
       /\ console' = console \o r.log
       /\ IF r.raised # "none"
          THEN Raise(r.raised) /\ UNCHANGED primary_keys
          ELSE primary_keys' = r.ret /\ pc' = "get_fks" /\ UNCHANGED error
    /\ UNCHANGED <<env_vars, stats_vars, db_conns, catalog, urns, fks_info_df, i, urn_json, foreign_keys,
                   schema_metadata, fetched, emitted, emitter_closed, call>>

\* The variant in which get_fks takes the rows it used out of the table.
GetFks_drop_used ==
    /\ pc = "get_fks"
    /\ LET r == get_fks(fks_info_df, urns[i], server, db, schema)
           table_name == extract_table_name(urns[i]).ret
       IN
       /\ console' = console \o r.log
       /\ foreign_keys' = r.ret
       /\ fks_info_df' = Filter(fks_info_df,
               {j \in DOMAIN fks_info_df : fks_info_df[j].child_table # table_name})
       /\ pc' = "extract"
    /\ UNCHANGED <<env_vars, stats_vars, db_conns, catalog, urns, i, urn_json,
                   primary_keys, schema_metadata, fetched, emitted, emitter_closed,
                   error, call>>

\* main.py:52  foreign_keys = keys_processor.get_fks(urn, server, db, schema)
GetFks ==
    /\ pc = "get_fks"
    /\ LET r == get_fks(fks_info_df, urns[i], server, db, schema) IN
       /\ console' = console \o r.log
       /\ foreign_keys' = r.ret
       /\ pc' = "extract"
    /\ UNCHANGED <<env_vars, stats_vars, db_conns, catalog, urns, fks_info_df, i, urn_json, primary_keys,
                   schema_metadata, fetched, emitted, emitter_closed, error, call>>

\* The entries of the catalog for the identifiers main() has finished with.
RolledBack(cat) ==
    [u \in DOMAIN cat |->
        IF \E k \in 1..Len(emitted) : emitted[k].urn = u /\ emitted[k].at < i
        THEN <<>> ELSE cat[u]]

\* main.py:56  schema_metadata = extractor.extract_schema_field_metadata(urn, urn_json)
ExtractSchema_roll_back ==
    /\ pc = "extract"
    /\ LET r == extract_schema_field_metadata(urns[i], urn_json) IN
       IF r.raised # "none"
       THEN Raise(r.raised) /\ catalog' = RolledBack(catalog)
            /\ UNCHANGED schema_metadata
       ELSE schema_metadata' = r.ret /\ pc' = "emit" /\ UNCHANGED <<error, catalog>>
    /\ UNCHANGED <<env_vars, stats_vars, db_conns, urns, fks_info_df, i, urn_json, primary_keys,
                   foreign_keys, fetched, emitted, emitter_closed, console, call>>

ExtractSchema ==
    /\ pc = "extract"
    /\ LET r == extract_schema_field_metadata(urns[i], urn_json) IN
       IF r.raised # "none"
       THEN Raise(r.raised) /\ UNCHANGED schema_metadata
       ELSE schema_metadata' = r.ret /\ pc' = "emit" /\ UNCHANGED error
    /\ UNCHANGED <<env_vars, stats_vars, db_conns, catalog, urns, fks_info_df, i, urn_json, primary_keys,
                   foreign_keys, fetched, emitted, emitter_closed, console, call>>

\* One call of emit_keys as emitted records it: the arguments, the event
\* handed to emitter.emit and what became of it.
EmitRecord(outcome) ==
    [urn |-> urns[i], at |-> i,
     primary_keys |-> primary_keys, foreign_keys |-> foreign_keys,
     closed_before |-> emitter_closed,
     mce |-> MetadataChangeEvent(urns[i], schema_metadata, primary_keys, foreign_keys),
     outcome |-> outcome]

\* main.py:57-63  emitter.emit_keys(...), then the separator line and the
\* next iteration.  emitter.emit either succeeds, or raises; when it raises
\* the catalog may or may not have applied the event.
EmitKeys ==
    /\ pc = "emit"
    /\ \E ok \in BOOLEAN, applied \in BOOLEAN :
          LET mce == MetadataChangeEvent(urns[i], schema_metadata, primary_keys,
                                         foreign_keys)
          IN
          IF ok
          THEN /\ applied
               /\ emitted' = Append(emitted, EmitRecord("ok"))
               /\ catalog' = Applied(catalog, mce)
               /\ emitter_closed' = TRUE
               /\ console' = console \o
                      <<Entry("INFO", "Emitting keys for URN", urns[i]),
                        Entry("PRINT", "Emitted primary and foreign keys for", urns[i]),
                        Entry("INFO", "----", <<>>)>>
               /\ i' = i + 1
               /\ pc' = "loop"
               /\ UNCHANGED error
          ELSE /\ emitted' = Append(emitted, EmitRecord("failed"))
               /\ catalog' = IF applied THEN Applied(catalog, mce) ELSE catalog
               /\ console' = Append(console, Entry("INFO", "Emitting keys for URN", urns[i]))
               /\ Raise("OperationalError")
               /\ UNCHANGED <<emitter_closed, i>>
    /\ UNCHANGED <<env_vars, stats_vars, db_conns, loop_vars, urns, fks_info_df, fetched, call>>

\* main.py:44  the for loop is exhausted: main() returns.
LoopDone_one_early ==
    /\ pc = "loop" /\ i >= Len(urns)
    /\ pc' = "done"
    /\ UNCHANGED <<env_vars, stats_vars, db_conns, loop_vars, catalog, urns,
                   fks_info_df, i, fetched,
                   emitted, emitter_closed, console, error, call>>

LoopDone ==
    /\ pc = "loop" /\ i > Len(urns)
    /\ pc' = "done"
    /\ UNCHANGED <<env_vars, stats_vars, db_conns, loop_vars, catalog, urns,
                   fks_info_df, i, fetched,
                   emitted, emitter_closed, console, error, call>>

Next ==
    \/ ListUrns
    \/ FetchKeys
    \/ FetchDataset
    \/ GetPks
    \/ GetFks
    \/ ExtractSchema
    \/ EmitKeys
    \/ LoopDone

Spec == Init /\ [][Next]_vars

(***************************************************************************)
(* SpecLargeDomain: a run of main() on a domain that stores one dataset    *)
(* more than the entities(count: ...) of the query asks for.               *)
(***************************************************************************)
Digits == <<"0", "1", "2", "3", "4", "5", "6", "7", "8", "9">>
NumStr(n) == <<Digits[(n \div 100) + 1], Digits[((n \div 10) % 10) + 1],
               Digits[(n % 10) + 1]>>
LargeUrn(n) == DatasetUrn(server, db, schema, <<"T">> \o NumStr(n))
LargeDomain == [n \in 1..(EntitiesCount + 1) |-> LargeUrn(n)]

InitLargeDomain ==
    /\ pc = "list_urns"
    /\ domain_entities = LargeDomain
    /\ keys_db \in {<<>>, <<Row(<<"T">> \o NumStr(1), KeyA, <<"T">> \o NumStr(2), KeyF)>>}
    /\ catalog = [u \in {LargeDomain[n] : n \in DOMAIN LargeDomain} |->
                     "schemaMetadata" :>
                         SchemaAspect(<<RawField(KeyA, "StringType")>>, NoKeys)]
    /\ urns = <<>> /\ fks_info_df = <<>> /\ i = 0 /\ urn_json = <<>>
    /\ primary_keys = <<>> /\ foreign_keys = <<>> /\ schema_metadata = <<>>
    /\ fetched = <<>> /\ emitted = <<>> /\ emitter_closed = FALSE
    /\ console = <<>> /\ error = "none"
    /\ call = [op |-> "none"]
    /\ catalog0 = catalog /\ db_conns = <<>> /\ sessions = <<>> /\ df_stats = <<>>

SpecLargeDomain == InitLargeDomain /\ [][Next]_vars

(***************************************************************************)
(* Claims about a run of main().                                           *)
(***************************************************************************)
Resolvable(urn) == extract_table_name(urn).ret # <<>>
EventsFor(u) == {k \in 1..Len(emitted) : emitted[k].urn = u}
EventsAt(j) == {k \in 1..Len(emitted) : emitted[k].at = j}
SnapshotObject(e) == e.mce.proposedSnapshot.aspects[1].object

\* C4: in every snapshot emit_keys builds, primaryKeys is present exactly when
\* the primary-key list it was given is non-empty and foreignKeys is present
\* exactly when the foreign-key list it was given is non-empty; a key that is
\* present is never the empty list.
C4_KeysPresentIffNonEmpty ==
    \A k \in 1..Len(emitted) :
        LET e == emitted[k]
            obj == SnapshotObject(e)
        IN
        /\ ("primaryKeys" \in DOMAIN obj) <=> (e.primary_keys # <<>>)
        /\ ("foreignKeys" \in DOMAIN obj) <=> (e.foreign_keys # <<>>)
        /\ "primaryKeys" \in DOMAIN obj => obj["primaryKeys"] # <<>>
        /\ "foreignKeys" \in DOMAIN obj => obj["foreignKeys"] # <<>>

\* C4 witness: one run has emitted a snapshot with neither key (both inferred
\* lists empty) and a snapshot with both.
C4_Witness ==
    /\ \E k \in 1..Len(emitted) :
          /\ emitted[k].primary_keys = <<>> /\ emitted[k].foreign_keys = <<>>
          /\ DOMAIN SnapshotObject(emitted[k]) \cap {"primaryKeys", "foreignKeys"} = {}
    /\ \E k \in 1..Len(emitted) :
          {"primaryKeys", "foreignKeys"} \subseteq DOMAIN SnapshotObject(emitted[k])

\* C5: over a list of distinct identifiers, at every point of the run each
\* identifier has at most one schema-metadata write, and when main() returns
\* each listed identifier has exactly one; every write is one event carrying
\* one snapshot, of that identifier, with the single aspect schemaMetadata.
C5_OneWritePerDataset ==
    /\ Distinct(urns) =>
          /\ \A u \in Entities : Cardinality(EventsFor(u)) <= 1
          /\ pc = "done" =>
                \A j \in 1..Len(urns) : Cardinality(EventsFor(urns[j])) = 1
    /\ \A k \in 1..Len(emitted) :
          LET snap == emitted[k].mce.proposedSnapshot IN
          /\ snap.urn = emitted[k].urn
          /\ Len(snap.aspects) = 1
          /\ snap.aspects[1].aspect = "schemaMetadata"

\* C5 witness: main() has returned from a run over two distinct identifiers,
\* with one write for each.
C5_Witness ==
    /\ pc = "done" /\ Len(urns) = 2 /\ urns[1] # urns[2]
    /\ Len(emitted) = 2
    /\ emitted[1].urn = urns[1] /\ emitted[2].urn = urns[2]

\* C6: when extract_table_name returns the failure marker for an identifier,
\* no schema-metadata write is issued for it, the failure is logged, and the
\* run goes on to the next identifier (it does not end on that identifier).
C6_UnresolvableIsSkipped ==
    /\ \A k \in 1..Len(emitted) : Resolvable(emitted[k].urn)
    /\ pc = "aborted" /\ i \in 1..Len(urns) /\ error # "RuntimeError"
          => Resolvable(urns[i])

\* C7: a failed get_dataset_json ends the run: the failed fetch is the last
\* fetch, main() has ended with the propagated RuntimeError, and no write was
\* issued for that list position or a later one.
C7_FetchFailureIsFatal ==
    \A k \in 1..Len(fetched) :
        fetched[k].outcome = "failed" =>
            /\ k = Len(fetched)
            /\ pc = "aborted" /\ error = "RuntimeError"
            /\ \A h \in 1..Len(emitted) : emitted[h].at < fetched[k].at

\* C7 witness: the fetch of the second identifier failed after the first was
\* written.
C7_Witness ==
    /\ Len(fetched) = 2 /\ fetched[2].outcome = "failed"
    /\ Len(emitted) = 1 /\ emitted[1].outcome = "ok"
    /\ pc = "aborted"

\* C8: a failed emit for an identifier is logged as an error and does not halt
\* the loop: main() is not ended by it.
C8_EmitFailureContinues ==
    \A k \in 1..Len(emitted) :
        emitted[k].outcome = "failed" =>
            /\ pc # "aborted"
            /\ \E h \in 1..Len(console) :
                  console[h].level = "ERROR" /\ console[h].about = emitted[k].urn

\* C9: when the run fails at an identifier (at fetch, decode or emit), what
\* the catalog holds for each identifier written earlier in the run is the
\* snapshot that was written for it: nothing is rolled back or rewritten.
C9_EarlierWritesStay ==
    pc = "aborted" =>
        \A k \in 1..Len(emitted) :
            (/\ emitted[k].outcome = "ok"
             /\ \A h \in (k + 1)..Len(emitted) : emitted[h].urn # emitted[k].urn)
            => /\ "schemaMetadata" \in DOMAIN catalog[emitted[k].urn]
               /\ catalog[emitted[k].urn]["schemaMetadata"]
                      = StoredAspect(SnapshotObject(emitted[k]))

\* C9 witness: the run failed at the decode of the second identifier after the
\* write of the first.
C9_Witness ==
    /\ pc = "aborted" /\ error = "ValueError" /\ i = 2
    /\ Len(emitted) = 1 /\ emitted[1].outcome = "ok"
    /\ "primaryKeys" \in DOMAIN SnapshotObject(emitted[1])

HasUnknownTag(json) ==
    \E u \in DOMAIN json.responses :
        /\ HasSchema(json, u)
        /\ \E j \in 1..Len(SchemaValue(json, u).fields) :
              TypeTag(SchemaValue(json, u).fields[j]) \notin
                  {"NumberType", "StringType", "BooleanType", "BytesType",
                   "DateType", "TimeType", "EnumType", "NullType", "MapType",
                   "ArrayType", "UnionType", "RecordType"}

\* C10: once the snapshot fetched for an identifier has a field whose type tag
\* is none of the twelve recognized tags, no write is issued for that
\* identifier and the run gets no further than the decode, where it ends with
\* the error.
C10_UnknownTypeIsFatal ==
    (pc \notin {"list_urns", "fetch_keys"} /\ urn_json # <<>> /\ HasUnknownTag(urn_json)) =>
        /\ \/ pc \in {"get_pks", "get_fks", "extract"}
           \/ pc = "aborted" /\ error = "ValueError"
        /\ EventsAt(i) = {}

\* C10 witness: the second identifier's snapshot has an unrecognized tag and
\* the run has ended at its decode, after the first identifier was written.
C10_Witness ==
    /\ pc = "aborted" /\ error = "ValueError" /\ i = 2
    /\ urn_json # <<>> /\ HasUnknownTag(urn_json)
    /\ Len(emitted) = 1

(***************************************************************************)
(* The stats pipeline (src/datahub_stats): MinMaxStats, SampleValues,      *)
(* PushStats and main().  A value of the database is an integer, a string  *)
(* or NULL; None of Python is a value of its own.                          *)
(***************************************************************************)
IntVal(n) == [t |-> "int", v |-> n]
StrVal(w) == [t |-> "str", v |-> w]
Null == [t |-> "null"]
NoneValue == [py |-> "None"]
DataFrame(rows) == [py |-> "DataFrame", rows |-> rows]
\* A dict in the order of its items.
Dict(items) == [py |-> "dict", items |-> items]

\* str(value): the digits of an integer, the string itself, 'None' for None.
Str(x) ==
    CASE x.t = "int" -> IF x.v < 10 THEN <<Digits[x.v + 1]>> ELSE NumStr(x.v)
      [] x.t = "str" -> x.v
      [] x.t = "null" -> <<"N", "o", "n", "e">>

\* The columns INFORMATION_SCHEMA lists for a view and, for a numeric
\* column, the smallest and largest value the view holds.
Column(name, type, lo, hi) ==
    [COLUMN_NAME |-> name, DATA_TYPE |-> type, lo |-> lo, hi |-> hi]
ViewColumns(view_name) ==
    IF view_name = TableA
    THEN <<Column(KeyA, "int", IntVal(1), IntVal(5)),
           Column(KeyF, "varchar", StrVal(<<"a">>), StrVal(<<"b">>))>>
    ELSE IF view_name = TableB
    THEN <<Column(KeyF, "bigint", Null, Null)>>
    ELSE <<>>

\* generate_stats.py:41-71.  outcome is what the database does: the connect
\* fails, the query fails, or both succeed.  When the connect fails, conn is
\* never bound and the finally block's "if conn" raises UnboundLocalError.
column_info(view_name, outcome) ==
    CASE outcome = "connect_failed" ->
           [raised |-> "UnboundLocalError", ret |-> NoneValue, conns |-> <<>>,
            log |-> <<Entry("ERROR", "Error connecting to database", view_name)>>]
      [] outcome = "query_failed" ->
           [raised |-> "none", ret |-> NoneValue,
            conns |-> <<Conn("column_info", "closed")>>,
            log |-> <<Entry("INFO", "Connected to db", <<>>),
                      Entry("INFO", "Running column info query", view_name),
                      Entry("ERROR", "Error connecting to database", view_name),
                      Entry("INFO", "Connection closed.", <<>>)>>]
      [] outcome = "ok" ->
           [raised |-> "none",
            ret |-> Dict([k \in DOMAIN ViewColumns(view_name) |->
                        [column |-> ViewColumns(view_name)[k].COLUMN_NAME,
                         data_type |-> ViewColumns(view_name)[k].DATA_TYPE]]),
            conns |-> <<Conn("column_info", "closed")>>,
            log |-> <<Entry("INFO", "Connected to db", <<>>),
                      Entry("INFO", "Running column info query", view_name),
                      Entry("INFO", "Got columns info.", <<>>),
                      Entry("INFO", "Connection closed.", <<>>)>>]

numeric_types == {"int", "smallint", "bigint", "decimal", "numeric", "float", "real"}

\* generate_stats.py:74-122.  The query is the list of its UNION ALL parts.
\* columns_info.items() on None raises AttributeError.
min_max_query_creator(view_name, info_outcome) ==
    LET info == column_info(view_name, info_outcome)
        start == <<Entry("INFO", "Creating SQL min/max query.", <<>>),
                   Entry("INFO", "Getting column info data...", <<>>)>>
    IN
    IF info.raised # "none"
    THEN [raised |-> info.raised, ret |-> <<>>, conns |-> info.conns,
          log |-> start \o info.log]
    ELSE IF info.ret = NoneValue
    THEN [raised |-> "AttributeError", ret |-> <<>>, conns |-> info.conns,
          log |-> start \o info.log]
    ELSE [raised |-> "none",
          ret |-> [k \in DOMAIN info.ret.items |->
                      [column_name |-> info.ret.items[k].column,
                       data_type |-> info.ret.items[k].data_type,
                       is_numeric |-> info.ret.items[k].data_type \in numeric_types]],
          conns |-> info.conns,
          log |-> start \o info.log \o <<Entry("INFO", "Min/max query generated.", <<>>)>>]

\* What the database answers to the min/max query: a row per part.
MinMaxRows(view_name, query) ==
    [k \in DOMAIN query |->
        LET col == ViewColumns(view_name)[k] IN
        [column_name |-> query[k].column_name, data_type |-> query[k].data_type,
         min_val |-> IF query[k].is_numeric THEN col.lo ELSE Null,
         max_val |-> IF query[k].is_numeric THEN col.hi ELSE Null]]

\* generate_stats.py:125-143.  int(v) of an integer or None for a null.
adjust_int_values_minmax(row) ==
    IF row.data_type \in {"int", "smallint", "bigint"}
    THEN [row EXCEPT !.min_val = IF @.t = "null" THEN Null ELSE IntVal(@.v),
                     !.max_val = IF @.t = "null" THEN Null ELSE IntVal(@.v)]
    ELSE row

\* generate_stats.py:146-195.  outcome is what the database does to this
\* function's own connect and query, info_outcome what it does to the
\* connection column_info opens meanwhile.  Every exception raised inside
\* the try block is logged and swallowed, and the function then returns None.
min_max_df(view_name, outcome, info_outcome) ==
    IF outcome = "connect_failed"
    THEN [raised |-> "UnboundLocalError", ret |-> NoneValue, conns |-> <<>>,
          log |-> <<Entry("ERROR", "Error connecting to database or executing query",
                          view_name)>>]
    ELSE
    LET q == min_max_query_creator(view_name, info_outcome)
        start == <<Entry("INFO", "Connected to db", <<>>),
                   Entry("INFO", "Generating min/max query...", <<>>)>> \o q.log
        conns == <<Conn("min_max_df", "closed")>> \o q.conns
        closed == <<Entry("INFO", "Connection closed.", <<>>)>>
        failed == <<Entry("ERROR", "Error connecting to database or executing query",
                          view_name)>>
    IN
    IF q.raised # "none"
    THEN [raised |-> "none", ret |-> NoneValue, conns |-> conns,
          log |-> start \o failed \o closed]
    ELSE IF outcome = "query_failed" \/ q.ret = <<>>
    THEN [raised |-> "none", ret |-> NoneValue, conns |-> conns,
          log |-> start \o <<Entry("INFO", "Executing min/max query.", <<>>)>>
                  \o failed \o closed]
    ELSE [raised |-> "none",
          ret |-> DataFrame([k \in DOMAIN q.ret |->
                      adjust_int_values_minmax(MinMaxRows(view_name, q.ret)[k])]),
          conns |-> conns,
          log |-> start \o <<Entry("INFO", "Executing min/max query.", <<>>),
                             Entry("INFO", "Got min max data.", <<>>),
                             Entry("INFO", "Rounded min/max integer data", <<>>)>>
                  \o closed]

\* push_stats.py:24-78.  The first domain of the response, whatever its urn.
stats_get_urns_for_domain(response) ==
    IF response.status_code # 200
    THEN [raised |-> "Exception", ret |-> <<>>,
          log |-> <<Entry("ERROR", "Error fetching URNs", response.status_code)>>]
    ELSE IF response.domains = <<>>
    THEN [raised |-> "IndexError", ret |-> <<>>, log |-> <<>>]
    ELSE [raised |-> "none", ret |-> response.domains[1].entities,
          log |-> <<Entry("INFO", "Fetched urns for domain", <<>>)>>]

\* main.py:42-46 of datahub_stats: parts[1] of the split at ',', split at '.',
\* its last two pieces.  A list index out of range raises IndexError.
stats_view_of(urn) ==
    LET parts == Split(urn, Comma) IN
    IF Len(parts) < 2
    THEN [raised |-> "IndexError", schema_name |-> <<>>, view_name |-> <<>>]
    ELSE LET relevant_part == Split(parts[2], Dot) IN
         IF Len(relevant_part) < 2
         THEN [raised |-> "IndexError", schema_name |-> <<>>, view_name |-> <<>>]
         ELSE [raised |-> "none",
               schema_name |-> relevant_part[Len(relevant_part) - 1],
               view_name |-> relevant_part[Len(relevant_part)]]

\* push_stats.py:80-110 and 169-175: a field profile per row of the frame,
\* its values through str().
field_profiles(df_minmax) ==
    [k \in DOMAIN df_minmax.rows |->
        [fieldPath |-> df_minmax.rows[k].column_name,
         min |-> Str(df_minmax.rows[k].min_val),
         max |-> Str(df_minmax.rows[k].max_val)]]

\* push_stats.py:184-192.  timestampMillis is the clock and is left out.
MetadataChangeProposal(view_urn, profiles) ==
    [entityType |-> "dataset", entityUrn |-> view_urn,
     aspectName |-> "datasetProfile", aspect |-> [fieldProfiles |-> profiles]]

\* The catalog after it applies a proposal: the aspect replaces the stored one.
AppliedProposal(cat, mcp) ==
    [cat EXCEPT ![mcp.entityUrn] = (mcp.aspectName :> [value |-> mcp.aspect]) @@ @]

(***************************************************************************)
(* SpecStats: a run of main() of datahub_stats.                            *)
(***************************************************************************)
stats_domain == <<"ucube_poc_v2">>

InitStats ==
    /\ pc = "s_list_urns"
    /\ domain_entities \in SeqsUpTo(Entities, MaxUrns)
    /\ catalog = [u \in Entities |-> <<>>]
    /\ keys_db = <<>>
    /\ urns = <<>> /\ fks_info_df = <<>> /\ i = 0 /\ urn_json = <<>>
    /\ primary_keys = <<>> /\ foreign_keys = <<>> /\ schema_metadata = <<>>
    /\ fetched = <<>> /\ emitted = <<>> /\ emitter_closed = FALSE
    /\ console = <<>> /\ error = "none"
    /\ call = [op |-> "none"]
    /\ catalog0 = catalog /\ db_conns = <<>> /\ sessions = <<>> /\ df_stats = <<>>

keys_vars == <<fks_info_df, loop_vars, emitter_closed, call>>

\* An exception no frame of the stats main() catches: the run ends.
StatsRaise(exc) == pc' = "s_aborted" /\ error' = exc

\* main.py:35-36  urn_ls = push_stats.get_urns_for_domain(...)
StatsListUrns ==
    /\ pc = "s_list_urns"
    /\ \E status \in {200, 500} :
          LET response == [status_code |-> status,
                           domains |-> <<DomainResult(stats_domain, domain_entities)>>]
              r == stats_get_urns_for_domain(response)
          IN
          /\ console' = console \o <<Entry("INFO", "Getting URNs for domain", stats_domain)>>
                                \o r.log
          /\ IF r.raised # "none"
             THEN StatsRaise(r.raised) /\ UNCHANGED <<urns, i>>
             ELSE urns' = r.ret /\ i' = 1 /\ pc' = "s_loop" /\ UNCHANGED error
    /\ UNCHANGED <<env_vars, keys_vars, stats_vars, db_conns, catalog, fetched, emitted>>

MinMaxOutcomes ==
    {<<"connect_failed", "ok">>, <<"query_failed", "ok">>, <<"ok", "ok">>,
     <<"ok", "connect_failed">>, <<"ok", "query_failed">>}

\* main.py:38-52  for urn in urn_ls: ... df_stats = minmax_stats.min_max_df(...)
StatsMinMax ==
    /\ pc = "s_loop" /\ i <= Len(urns)
    /\ LET view == stats_view_of(urns[i])
           start == <<Entry("INFO", "Initiating stats process for urn", urns[i])>>
       IN
       IF view.raised # "none"
       THEN /\ StatsRaise(view.raised)
            /\ console' = console \o start
            /\ UNCHANGED <<db_conns, df_stats, fetched>>
       ELSE \E o \in MinMaxOutcomes :
               LET r == min_max_df(view.view_name, o[1], o[2]) IN
               /\ console' = console \o start \o r.log
               /\ db_conns' = db_conns \o r.conns
               /\ fetched' = Append(fetched,
                      [urn |-> urns[i], at |-> i,
                       outcome |-> IF r.raised = "none" /\ r.ret # NoneValue
                                   THEN "ok" ELSE "failed"])
               /\ IF r.raised # "none"
                  THEN StatsRaise(r.raised) /\ UNCHANGED df_stats
                  ELSE df_stats' = r.ret /\ pc' = "s_push" /\ UNCHANGED error
    /\ UNCHANGED <<env_vars, keys_vars, sessions, catalog, urns, i, emitted>>

\* What push_min_max_stats handed to emitter.emit and what became of it.
ProfileRecord(outcome) ==
    [urn |-> urns[i], at |-> i, session |-> Len(sessions) + 1,
     mcp |-> MetadataChangeProposal(urns[i], field_profiles(df_stats)),
     outcome |-> outcome]

\* The variant that leaves a dataset without statistics out and goes on.
StatsPush_skip_none ==
    /\ pc = "s_push"
    /\ IF df_stats = NoneValue
       THEN /\ i' = i + 1 /\ pc' = "s_loop"
            /\ UNCHANGED <<sessions, emitted, catalog, console, error>>
       ELSE /\ sessions' = Append(sessions, "closed")
            /\ emitted' = Append(emitted, ProfileRecord("ok"))
            /\ catalog' = AppliedProposal(catalog,
                              MetadataChangeProposal(urns[i], field_profiles(df_stats)))
            /\ i' = i + 1 /\ pc' = "s_loop"
            /\ UNCHANGED <<console, error>>
    /\ UNCHANGED <<env_vars, keys_vars, db_conns, df_stats, urns, fetched>>

\* main.py:73-74  push_stats.push_min_max_stats(df_minmax=df_stats, ...)
\* push_stats.py:152-202: df_minmax.iterrows() on None raises AttributeError
\* before any emitter exists; emitter.close() runs only after emit returned.
StatsPush ==
    /\ pc = "s_push"
    /\ LET start == <<Entry("INFO", "Initiating DataHub population of stats...", <<>>),
                      Entry("INFO", "Generate list of field profiles", urns[i])>>
       IN
       IF df_stats = NoneValue
       THEN /\ StatsRaise("AttributeError")
            /\ console' = console \o start
            /\ UNCHANGED <<sessions, emitted, catalog, i>>
       ELSE \E ok \in BOOLEAN, applied \in BOOLEAN :
               LET mcp == MetadataChangeProposal(urns[i], field_profiles(df_stats)) IN
               IF ok
               THEN /\ applied
                    /\ sessions' = Append(sessions, "closed")
                    /\ emitted' = Append(emitted, ProfileRecord("ok"))
                    /\ catalog' = AppliedProposal(catalog, mcp)
                    /\ console' = console \o start \o
                           <<Entry("INFO", "Emitting stats for view", urns[i]),
                             Entry("INFO", "Pushed stats for urn", urns[i]),
                             Entry("INFO", "Closing emitter.", <<>>)>>
                    /\ i' = i + 1 /\ pc' = "s_loop"
                    /\ UNCHANGED error
               ELSE /\ sessions' = Append(sessions, "open")
                    /\ emitted' = Append(emitted, ProfileRecord("failed"))
                    /\ catalog' = IF applied THEN AppliedProposal(catalog, mcp) ELSE catalog
                    /\ console' = console \o start \o
                           <<Entry("INFO", "Emitting stats for view", urns[i])>>
                    /\ StatsRaise("OperationalError")
                    /\ UNCHANGED i
    /\ UNCHANGED <<env_vars, keys_vars, db_conns, df_stats, urns, fetched>>

\* main.py:38, 77-80  the for loop is exhausted: main() logs END and returns.
StatsDone ==
    /\ pc = "s_loop" /\ i > Len(urns)
    /\ pc' = "s_done"
    /\ console' = Append(console, Entry("INFO", "END", <<>>))
    /\ UNCHANGED <<env_vars, keys_vars, stats_vars, db_conns, catalog, urns, i,
                   fetched, emitted, error>>

NextStats ==
    \/ StatsListUrns
    \/ StatsMinMax
    \/ StatsPush
    \/ StatsDone

SpecStats == InitStats /\ [][NextStats]_vars

(***************************************************************************)
(* SpecPipelines: a run of either pipeline.                                *)
(***************************************************************************)
InitPipelines == Init \/ InitStats

NextPipelines == Next \/ NextStats

SpecPipelines == InitPipelines /\ [][NextPipelines]_vars

(***************************************************************************)
(* SampleValues.column_distinct_values and the context manager it uses.    *)
(***************************************************************************)
MaxValues == 2     \* most distinct values a column holds in a single call

ExitParams == 1     \* def __exit__(self)
WithExitArgs == 4   \* a with statement calls __exit__(self, exc_type, exc, tb)

List(items) == [py |-> "list", items |-> items]

\* generate_stats.py:245-251 as the with statement of line 316 calls it: a
\* call with more arguments than the def takes raises TypeError before the
\* body of __exit__, and so before conn.close(), runs.
MSSQLConnection_exit ==
    IF WithExitArgs # ExitParams
    THEN [raised |-> "TypeError", state |-> "open", log |-> <<>>]
    ELSE [raised |-> "none", state |-> "closed",
          log |-> <<Entry("INFO", "Connection to db closed successfully", <<>>)>>]

\* generate_stats.py:298-347.  values are the distinct values of the column;
\* outcome is what the database does.  The result is that of the with block
\* unless leaving the block raises.
column_distinct_values(values, distinct_max, outcome) ==
    IF outcome = "connect_failed"
    THEN [raised |-> "pyodbc.Error", ret |-> NoneValue, queries |-> <<>>,
          conns |-> <<>>, log |-> <<>>]
    ELSE
    LET distinct_count == Len(values)
        connected == <<Entry("INFO", "Connected to db", <<>>)>>
        counted == connected \o <<Entry("INFO", "Distinct values in column", distinct_count)>>
        body ==
            IF outcome = "count_failed"
            THEN [raised |-> "pyodbc.Error", ret |-> NoneValue,
                  queries |-> <<"COUNT">>, log |-> connected]
            ELSE IF distinct_count <= distinct_max
            THEN IF outcome = "distinct_failed"
                 THEN [raised |-> "pyodbc.Error", ret |-> NoneValue,
                       queries |-> <<"COUNT", "DISTINCT">>,
                       log |-> counted \o <<Entry("INFO", "Getting column values", <<>>)>>]
                 ELSE [raised |-> "none",
                       ret |-> List([k \in DOMAIN values |-> Str(values[k])]),
                       queries |-> <<"COUNT", "DISTINCT">>,
                       log |-> counted \o <<Entry("INFO", "Getting column values", <<>>),
                                            Entry("INFO", "Got distinct values", <<>>)>>]
            ELSE [raised |-> "none", ret |-> List(<<>>), queries |-> <<"COUNT">>,
                  log |-> counted \o <<Entry("WARNING", "Too many values in column", <<>>)>>]
        exit == MSSQLConnection_exit
    IN [raised |-> IF exit.raised # "none" THEN exit.raised ELSE body.raised,
        ret |-> IF exit.raised # "none" THEN NoneValue ELSE body.ret,
        queries |-> body.queries,
        conns |-> <<Conn("column_distinct_values", exit.state)>>,
        log |-> body.log \o exit.log]

(***************************************************************************)
(* SpecDistinct: one call of column_distinct_values on any small column.   *)
(***************************************************************************)
RawValues == {IntVal(7), StrVal(<<"a">>), Null}
DistinctColumns == {vs \in SeqsUpTo(RawValues, MaxValues) : Distinct(vs)}

InitDistinct ==
    /\ Idle
    /\ \E vs \in DistinctColumns, m \in 0..MaxValues :
          call = [op |-> "input", values |-> vs, distinct_max |-> m]

CallColumnDistinctValues ==
    /\ pc = "idle" /\ call.op = "input" /\ "distinct_max" \in DOMAIN call
    /\ \E outcome \in {"connect_failed", "count_failed", "distinct_failed", "ok"} :
          /\ outcome = "distinct_failed" => Len(call.values) <= call.distinct_max
          /\ LET r == column_distinct_values(call.values, call.distinct_max, outcome) IN
             /\ call' = [op |-> "column_distinct_values", values |-> call.values,
                         distinct_max |-> call.distinct_max, outcome |-> outcome,
                         raised |-> r.raised, ret |-> r.ret, queries |-> r.queries,
                         log |-> r.log]
             /\ db_conns' = db_conns \o r.conns
             /\ console' = console \o r.log
    /\ UNCHANGED <<pc, env_vars, stats_vars, loop_vars, fks_info_df, emitter_closed,
                   catalog, urns, i, fetched, emitted, error>>

NextDistinct == CallColumnDistinctValues

SpecDistinct == InitDistinct /\ [][NextDistinct]_vars

(***************************************************************************)
(* SpecSnapshot: one pass of extract_schema_field_metadata and emit_keys   *)
(* (up to the event) over any small fetched snapshot.                      *)
(***************************************************************************)
SnapshotHeaders ==
    {[schemaName |-> "UCube", platform |-> "urn:li:dataPlatform:mssql",
      version |-> 0, hash |-> "", platformSchema |-> "MySqlDDL"],
     [schemaName |-> "dbo", platform |-> "urn:li:dataPlatform:hive",
      version |-> 3, hash |-> "9f", platformSchema |-> "OtherSchema"]}

SnapshotFields ==
    {[fieldPath |-> path, nativeDataType |-> native,
      type |-> [type |-> ("__type" :> tag)]] :
        path \in {<<"k">>, <<"P", "K", "a">>}, native \in {"int", "varchar"},
        tag \in {"NumberType", "StringType", "FixedType"}}

SnapshotKeys ==
    {<<>>, [primaryKeys |-> <<<<"f">>>>],
     [primaryKeys |-> <<<<"k">>>>,
      foreignKeys |-> <<[name |-> <<"f">>, foreignDataset |-> UrnB]>>]}

InitSnapshot ==
    /\ Idle
    /\ \E h \in SnapshotHeaders, fl \in SeqsUpTo(SnapshotFields, MaxFields),
          st \in SnapshotKeys, d \in FactTables :
          call = [op |-> "input", urn |-> UrnA, facts |-> d,
                  json |-> EntityJson(UrnA,
                      "schemaMetadata" :> [value |-> h @@ [fields |-> fl] @@ st])]

\* The variant that keeps the stored primary keys when none is inferred.
CallBuildSnapshot_keep_stored ==
    /\ pc = "idle" /\ call.op = "input" /\ "facts" \in DOMAIN call
    /\ LET p == get_pks(call.facts, call.urn, call.json)
           f == get_fks(call.facts, call.urn, server, db, schema)
           r == extract_schema_field_metadata(call.urn, call.json)
           value == call.json.responses[call.urn].aspects.schemaMetadata.value
           kept == IF p.ret = <<>> /\ "primaryKeys" \in DOMAIN value
                   THEN value.primaryKeys ELSE p.ret
       IN
       /\ call' = [op |-> "emit_keys", urn |-> call.urn, facts |-> call.facts,
                   json |-> call.json,
                   raised |-> IF p.raised # "none" THEN p.raised ELSE r.raised,
                   mce |-> IF p.raised # "none" \/ r.raised # "none" THEN <<>>
                           ELSE MetadataChangeEvent(call.urn, r.ret, kept, f.ret)]
       /\ console' = console \o p.log \o f.log
    /\ UNCHANGED main_vars

\* main.py:48-62 for one dataset, up to the event emit_keys builds.
CallBuildSnapshot ==
    /\ pc = "idle" /\ call.op = "input" /\ "facts" \in DOMAIN call
    /\ LET p == get_pks(call.facts, call.urn, call.json)
           f == get_fks(call.facts, call.urn, server, db, schema)
           r == extract_schema_field_metadata(call.urn, call.json)
       IN
       /\ call' = [op |-> "emit_keys", urn |-> call.urn, facts |-> call.facts,
                   json |-> call.json,
                   raised |-> IF p.raised # "none" THEN p.raised ELSE r.raised,
                   mce |-> IF p.raised # "none" \/ r.raised # "none" THEN <<>>
                           ELSE MetadataChangeEvent(call.urn, r.ret, p.ret, f.ret)]
       /\ console' = console \o p.log \o f.log
    /\ UNCHANGED main_vars

NextSnapshot == CallBuildSnapshot

SpecSnapshot == InitSnapshot /\ [][NextSnapshot]_vars

(***************************************************************************)
(* SpecRoundTrip: get_fks on a one-row fact table whose parent_table is    *)
(* any short string, then extract_table_name on the foreignDataset built.  *)
(***************************************************************************)
InitRoundTrip ==
    /\ Idle
    /\ \E t \in SeqsUpTo(ParseAlphabet, MaxLen) :
          call = [op |-> "input", parent_table |-> t]

CallBuildThenParse ==
    /\ pc = "idle" /\ call.op = "input" /\ "parent_table" \in DOMAIN call
    /\ LET df == <<Row(call.parent_table, KeyA, TableA, KeyF)>>
           f == get_fks(df, UrnA, server, db, schema)
           t == extract_table_name(f.ret[1].foreignDataset)
       IN
       /\ call' = [op |-> "extract_table_name", parent_table |-> call.parent_table,
                   urn |-> f.ret[1].foreignDataset, ret |-> t.ret]
       /\ console' = console \o f.log \o t.log
    /\ UNCHANGED main_vars

NextRoundTrip == CallBuildThenParse

SpecRoundTrip == InitRoundTrip /\ [][NextRoundTrip]_vars

(***************************************************************************)
(* SpecListings: the same listDomains response handed to the listing of    *)
(* datahub_foreign_keys and to the listing of datahub_stats.               *)
(***************************************************************************)
CallBothListings ==
    /\ pc = "idle" /\ call.op = "input" /\ "response" \in DOMAIN call
    /\ LET k == get_urns_for_domain(call.response, call.domain)
           p == stats_get_urns_for_domain(call.response)
       IN
       /\ call' = [op |-> "both_listings", domain |-> call.domain,
                   response |-> call.response,
                   keys |-> [raised |-> k.raised, ret |-> k.ret],
                   stats |-> [raised |-> p.raised, ret |-> p.ret]]
       /\ console' = console \o k.log \o p.log
    /\ UNCHANGED main_vars

NextListings == CallBothListings

SpecListings == InitList /\ [][NextListings]_vars

(***************************************************************************)
(* datahub_descriptions: the sheet scraper.  A sheet is the sequence of    *)
(* its rows, a row the tuple of its cells, a cell None or a string.        *)
(***************************************************************************)
MaxSheetRows == 4   \* most rows of a sheet in a single call

Cell(w) == [py |-> "str", v |-> w]

\* Python truth of a cell: None and the empty string are false.
Truthy(c) == IF c = NoneValue THEN FALSE ELSE c.v # ""

\* tables_dict[key] = value: a present key keeps its place, a new key is
\* added at the end.
SetItem(items, key, value) ==
    IF \E k \in DOMAIN items : items[k].key = key
    THEN [k \in DOMAIN items |->
             IF items[k].key = key THEN [key |-> key, value |-> value] ELSE items[k]]
    ELSE Append(items, [key |-> key, value |-> value])

\* scrape_tables.py:111-125  the body of the for loop, from row k on.
RECURSIVE ScanRows(_, _, _)
ScanRows(rows, k, st) ==
    IF k > Len(rows) THEN st
    ELSE
    LET row == rows[k]
        found == row[1] = Cell("Asset")
        start_capturing == st.start_capturing \/ found
        log1 == IF found
                THEN Append(st.log, Entry("INFO", "Starting to capture tables...", <<>>))
                ELSE st.log
        header == Truthy(row[1]) /\ \A j \in 2..Len(row) : row[j] = NoneValue
        flush == Truthy(st.current_table) /\ st.data # <<>>
    IN
    IF ~start_capturing THEN ScanRows(rows, k + 1, st)
    ELSE IF header
    THEN ScanRows(rows, k + 1,
             [start_capturing |-> TRUE,
              current_table |-> row[1],
              data |-> IF flush THEN <<>> ELSE st.data,
              tables_dict |-> IF flush
                              THEN SetItem(st.tables_dict, st.current_table.v,
                                           DataFrame(st.data))
                              ELSE st.tables_dict,
              log |-> (IF flush
                       THEN Append(log1, Entry("INFO", "Finished processing table",
                                               st.current_table.v))
                       ELSE log1)
                      \o <<Entry("INFO", "Processing new table", row[1].v)>>])
    ELSE IF Truthy(st.current_table) /\ Truthy(row[1]) /\ Truthy(row[2])
    THEN ScanRows(rows, k + 1,
             [st EXCEPT !.start_capturing = TRUE, !.log = log1,
                        !.data = Append(st.data, [column_name |-> row[1].v,
                                                  description |-> row[2].v])])
    ELSE ScanRows(rows, k + 1, [st EXCEPT !.start_capturing = TRUE, !.log = log1])

\* scrape_tables.py:86-137.  outcome "error" is any exception inside the try
\* (the workbook or the sheet 'Table attributes' is missing): the function
\* logs it and returns an empty list.
extract_tables_from_xlsx(sheet, outcome) ==
    IF outcome = "error"
    THEN [ret |-> List(<<>>),
          log |-> <<Entry("INFO", "Starting table extraction from XLSX", <<>>),
                    Entry("ERROR", "Error during table extraction", <<>>)>>]
    ELSE
    LET st == ScanRows(sheet, 1,
                  [start_capturing |-> FALSE, current_table |-> NoneValue,
                   data |-> <<>>, tables_dict |-> <<>>,
                   log |-> <<Entry("INFO", "Starting table extraction from XLSX", <<>>)>>])
        last == Truthy(st.current_table) /\ st.data # <<>>
    IN
    [ret |-> Dict(IF last
                  THEN SetItem(st.tables_dict, st.current_table.v, DataFrame(st.data))
                  ELSE st.tables_dict),
     log |-> IF last
             THEN Append(st.log, Entry("INFO", "Finished processing table",
                                       st.current_table.v))
             ELSE st.log]

\* column_descriptions.py:12-26.  len(formatted_tables.keys()) on the empty
\* list of the failure path raises AttributeError.
get_column_descriptions(sheet, outcome) ==
    LET t == extract_tables_from_xlsx(sheet, outcome) IN
    IF t.ret.py = "list"
    THEN [raised |-> "AttributeError", ret |-> NoneValue, tables |-> t.ret, log |-> t.log]
    ELSE LET counted == Append(t.log, Entry("INFO", "Number of tables extracted",
                                             Len(t.ret.items)))
         IN
         IF t.ret.items # <<>>
         THEN [raised |-> "none", ret |-> t.ret, tables |-> t.ret,
               log |-> Append(counted,
                              Entry("INFO", "Formatted tables are ready for use.", <<>>))]
         ELSE [raised |-> "none", ret |-> Dict(<<>>), tables |-> t.ret,
               log |-> Append(counted,
                              Entry("INFO", "No tables were extracted or formatted.", <<>>))]

(***************************************************************************)
(* SpecSheet: one call of get_column_descriptions on any small sheet of    *)
(* three columns.                                                          *)
(***************************************************************************)
SheetNames == {Cell("Asset"), Cell("T")}

SheetRows ==
    {<<a, b, c>> : a \in SheetNames \cup {NoneValue},
                   b \in {NoneValue, Cell("d")}, c \in {NoneValue, Cell("x")}}

InitSheet ==
    /\ Idle
    /\ \E sheet \in SeqsUpTo(SheetRows, MaxSheetRows), outcome \in {"ok", "error"} :
          call = [op |-> "input", sheet |-> sheet, outcome |-> outcome]

CallGetColumnDescriptions ==
    /\ pc = "idle" /\ call.op = "input" /\ "sheet" \in DOMAIN call
    /\ LET r == get_column_descriptions(call.sheet, call.outcome) IN
       /\ call' = [op |-> "get_column_descriptions", sheet |-> call.sheet,
                   outcome |-> call.outcome, raised |-> r.raised,
                   tables |-> r.tables, ret |-> r.ret]
       /\ console' = console \o r.log
    /\ UNCHANGED main_vars

NextSheet == CallGetColumnDescriptions

SpecSheet == InitSheet /\ [][NextSheet]_vars

(***************************************************************************)
(* SpecDescriptions: a run of table_descriptions.py or of                  *)
(* column_descriptions.py from push_metadata on.  call holds the           *)
(* arguments of the run, i the position of the for loop in tables_dict.    *)
(***************************************************************************)
MaxColumns == 2   \* most rows of the DataFrame of one table

\* populate_descriptions.py:38
urn_generator_ucube(table_name, env) ==
    LET urn == <<"urn:li:dataset:(urn:li:dataPlatform:mssql", Comma,
                 "ekofisk", Dot, "RECubeDataRelease", Dot, "dbo", Dot,
                 "vDataFeed_UCube_">> \o table_name \o <<Comma, env, ")">>
    IN [ret |-> urn,
        log |-> <<Entry("INFO", "Generated URN for table", table_name),
                  Entry("INFO", "URN", urn)>>]

\* table_df.set_index('column_name')['description'].to_dict(): one item per
\* column name, at the place of its first row, with its last description.
RECURSIVE to_dict(_)
to_dict(rows) ==
    IF rows = <<>> THEN <<>>
    ELSE SetItem(to_dict(SubSeq(rows, 1, Len(rows) - 1)),
                 Last(rows).column_name, Last(rows).description)

DescriptionEvent(urn, aspect, object) ==
    [proposedSnapshot |->
        [urn |-> urn, aspects |-> <<[aspect |-> aspect, object |-> object]>>]]

\* populate_descriptions.py:44-80.  outcome "failed" is emitter.emit raising:
\* the except clause logs it and emitter.close() is not reached.
table_desc_emitter(urn, table_description, outcome) ==
    LET mce == DescriptionEvent(urn, "editableDatasetProperties",
                                [description |-> table_description])
        start == <<Entry("INFO", "Emitting table description for URN", urn)>>
    IN
    IF outcome = "ok"
    THEN [mce |-> mce, session |-> "closed",
          log |-> Append(start, Entry("INFO",
                      "Successfully emitted table description metadata", <<>>))]
    ELSE [mce |-> mce, session |-> "open",
          log |-> Append(start, Entry("ERROR",
                      "Error emitting table description for URN", urn))]

\* The variant that writes the first column only.
column_desc_emitter_first_column(urn, column_dict, outcome) ==
    LET data_to_push == [k \in 1..(IF column_dict = <<>> THEN 0 ELSE 1) |->
                            [fieldPath |-> column_dict[k].key,
                             description |-> column_dict[k].value]]
        mce == DescriptionEvent(urn, "editableSchemaMetadata",
                                [editableSchemaFieldInfo |-> data_to_push])
        start == <<Entry("INFO", "Emitting column descriptions for URN", urn)>>
    IN
    IF outcome = "ok"
    THEN [mce |-> mce, session |-> "closed",
          log |-> Append(start, Entry("INFO",
                      "Successfully emitted column description metadata.", <<>>))]
    ELSE [mce |-> mce, session |-> "open",
          log |-> Append(start, Entry("ERROR",
                      "Error emitting column descriptions for URN", urn))]

\* populate_descriptions.py:83-128
column_desc_emitter(urn, column_dict, outcome) ==
    LET data_to_push == [k \in DOMAIN column_dict |->
                            [fieldPath |-> column_dict[k].key,
                             description |-> column_dict[k].value]]
        mce == DescriptionEvent(urn, "editableSchemaMetadata",
                                [editableSchemaFieldInfo |-> data_to_push])
        start == <<Entry("INFO", "Emitting column descriptions for URN", urn)>>
    IN
    IF outcome = "ok"
    THEN [mce |-> mce, session |-> "closed",
          log |-> Append(start, Entry("INFO",
                      "Successfully emitted column description metadata.", <<>>))]
    ELSE [mce |-> mce, session |-> "open",
          log |-> Append(start, Entry("ERROR",
                      "Error emitting column descriptions for URN", urn))]

\* The catalog after it applies a description event.
AppliedDescription(cat, mce) ==
    LET snap == mce.proposedSnapshot
        asp == snap.aspects[1]
    IN [cat EXCEPT ![snap.urn] = (asp.aspect :> asp.object) @@ @]

TableNames == {<<"Asset">>, <<"T">>}
Environments == {"DEV", "PROD"}
TableTexts == {<<"t">>, <<"u">>}
ColumnFrames ==
    {DataFrame(rows) :
        rows \in SeqsUpTo([column_name : {"c", "e"}, description : {"d", "x"}],
                          MaxColumns) \ {<<>>}}

\* A dictionary of tables: every name at most once, in any order.
TablesDicts(values) ==
    {items \in SeqsUpTo([key : TableNames, value : values], Cardinality(TableNames)) :
        \A k, h \in DOMAIN items : k # h => items[k].key # items[h].key}

desc_frame == <<domain_entities, keys_db, urns, fks_info_df, urn_json,
                primary_keys, foreign_keys, schema_metadata, fetched,
                emitter_closed, error, call, catalog0, db_conns, df_stats>>

InitDescriptions ==
    /\ pc = "d_start"
    /\ \E env \in Environments :
          /\ \/ \E items \in TablesDicts(TableTexts) :
                   call = [op |-> "push_metadata", kind |-> "table", env |-> env,
                           tables_dict |-> items]
             \/ \E items \in TablesDicts(ColumnFrames) :
                   call = [op |-> "push_metadata", kind |-> "column", env |-> env,
                           tables_dict |-> items]
          /\ catalog = [u \in {urn_generator_ucube(t, env).ret : t \in TableNames} |-> <<>>]
    /\ catalog0 = catalog
    /\ domain_entities = <<>> /\ keys_db = <<>> /\ urns = <<>> /\ fks_info_df = <<>>
    /\ i = 0 /\ urn_json = <<>>
    /\ primary_keys = <<>> /\ foreign_keys = <<>> /\ schema_metadata = <<>>
    /\ fetched = <<>> /\ emitted = <<>> /\ emitter_closed = FALSE
    /\ console = <<>> /\ error = "none"
    /\ db_conns = <<>> /\ sessions = <<>> /\ df_stats = <<>>

\* table_descriptions.py:13-18, column_descriptions.py:38-42
DescStart ==
    /\ pc = "d_start"
    /\ console' = console \o
           <<Entry("INFO", "Starting metadata emitting process.", <<>>),
             Entry("INFO", "CustomDescriptionsDC initialized for environment", call.env)>>
    /\ i' = 1 /\ pc' = "d_loop"
    /\ UNCHANGED <<desc_frame, catalog, emitted, sessions>>

DescriptionRecord(urn, mce, outcome) ==
    [urn |-> urn, at |-> i, kind |-> call.kind, mce |-> mce, outcome |-> outcome]

\* The variant in which a failed emit ends the run.
PushDescription_stop_on_failure ==
    /\ pc = "d_loop" /\ i <= Len(call.tables_dict)
    /\ \E outcome \in {"ok", "failed"}, applied \in BOOLEAN :
          LET item == call.tables_dict[i]
              u == urn_generator_ucube(item.key, call.env)
              r == IF call.kind = "table"
                   THEN table_desc_emitter(u.ret, item.value, outcome)
                   ELSE column_desc_emitter(u.ret, to_dict(item.value.rows), outcome)
          IN
          /\ outcome = "ok" => applied
          /\ emitted' = Append(emitted, DescriptionRecord(u.ret, r.mce, outcome))
          /\ sessions' = Append(sessions, r.session)
          /\ catalog' = IF applied THEN AppliedDescription(catalog, r.mce) ELSE catalog
          /\ console' = console \o u.log \o r.log
          /\ IF outcome = "ok"
             THEN i' = i + 1 /\ pc' = "d_loop"
             ELSE i' = i /\ pc' = "aborted"
    /\ UNCHANGED desc_frame

\* table_descriptions.py:20-26, column_descriptions.py:44-49  one iteration
\* of the for loop.  emitter.emit either succeeds or raises; when it raises
\* the catalog may or may not have applied the event.
PushDescription ==
    /\ pc = "d_loop" /\ i <= Len(call.tables_dict)
    /\ \E outcome \in {"ok", "failed"}, applied \in BOOLEAN :
          LET item == call.tables_dict[i]
              u == urn_generator_ucube(item.key, call.env)
              r == IF call.kind = "table"
                   THEN table_desc_emitter(u.ret, item.value, outcome)
                   ELSE column_desc_emitter(u.ret, to_dict(item.value.rows), outcome)
          IN
          /\ outcome = "ok" => applied
          /\ emitted' = Append(emitted, DescriptionRecord(u.ret, r.mce, outcome))
          /\ sessions' = Append(sessions, r.session)
          /\ catalog' = IF applied THEN AppliedDescription(catalog, r.mce) ELSE catalog
          /\ console' = console \o u.log \o r.log
          /\ i' = i + 1 /\ pc' = "d_loop"
    /\ UNCHANGED desc_frame

\* The for loop is exhausted: push_metadata returns and the script ends.
DescDone ==
    /\ pc = "d_loop" /\ i > Len(call.tables_dict)
    /\ pc' = "d_done"
    /\ UNCHANGED <<desc_frame, catalog, emitted, sessions, console, i>>

NextDescriptions ==
    \/ DescStart
    \/ PushDescription
    \/ DescDone

SpecDescriptions == InitDescriptions /\ [][NextDescriptions]_vars

(***************************************************************************)
(* Claims about connections, listing and ordering.                         *)
(***************************************************************************)
\* C11: once fetch_foreign_keys_info has ended, with the rows or with an
\* error of the query, the connection it opened is closed.
C11_KeysConnectionClosed ==
    pc # "fetch_keys" =>
        \A k \in DOMAIN db_conns :
            db_conns[k].by = "fetch_foreign_keys_info" => db_conns[k].state = "closed"

\* C14: a run of main() that ends without an error has handed a
\* schema-metadata event to the emitter for every dataset the catalog holds
\* in the domain, however many the domain holds.
C14_WholeDomainOrAbort ==
    pc = "done" =>
        \A n \in DOMAIN domain_entities :
            \E k \in DOMAIN emitted : emitted[k].urn = domain_entities[n]

\* C16: when a dataset is written a second time against the same key-fact
\* table, the snapshot is the one written the first time, so the aspect the
\* catalog stores equals what it stored after the first write and its keys
\* have not grown.
C16_RewriteIsIdempotent ==
    \A k, h \in DOMAIN emitted :
        (k < h /\ emitted[k].urn = emitted[h].urn /\ emitted[k].outcome = "ok") =>
            /\ SnapshotObject(emitted[h]) = SnapshotObject(emitted[k])
            /\ catalog[emitted[k].urn]["schemaMetadata"]
                   = StoredAspect(SnapshotObject(emitted[k]))

\* C16 witness: the same dataset, with inferred primary keys, was written
\* twice and both writes succeeded.
C16_Witness ==
    /\ Len(emitted) = 2
    /\ emitted[1].urn = emitted[2].urn
    /\ emitted[1].outcome = "ok" /\ emitted[2].outcome = "ok"
    /\ emitted[1].primary_keys # <<>>
    /\ "primaryKeys" \in DOMAIN SnapshotObject(emitted[2])

\* What main() infers and emits for a dataset taken on its own: a function
\* of the identifier, the fact table and the snapshot stored for it.
AloneJson(u) == EntityJson(u, catalog0[u])
AlonePks(u) == get_pks(keys_db, u, AloneJson(u)).ret
AloneFks(u) == get_fks(keys_db, u, server, db, schema).ret
AloneEvent(u) ==
    MetadataChangeEvent(u, extract_schema_field_metadata(u, AloneJson(u)).ret,
                        AlonePks(u), AloneFks(u))

\* C17: when the identifiers of a run are distinct, the keys inferred and the
\* snapshot emitted for a dataset are those of the dataset taken on its own,
\* whatever its place in the list and whatever was processed before it; and
\* the fact table is never changed by get_pks or get_fks.
C17_OrderInsensitive ==
    /\ fetched # <<>> => fks_info_df = keys_db
    /\ Distinct(urns) =>
          \A k \in DOMAIN emitted :
              /\ emitted[k].primary_keys = AlonePks(emitted[k].urn)
              /\ emitted[k].foreign_keys = AloneFks(emitted[k].urn)
              /\ emitted[k].mce = AloneEvent(emitted[k].urn)

\* C17 witness: two different datasets tied by one row of the fact table,
\* the child written first with its foreign key, the parent second with its
\* primary key.
C17_Witness ==
    /\ Len(emitted) = 2 /\ Distinct(urns)
    /\ emitted[1].urn = UrnB /\ emitted[2].urn = UrnA
    /\ emitted[1].foreign_keys # <<>> /\ emitted[2].primary_keys # <<>>
    /\ emitted[1].foreign_keys[1].foreignDataset = UrnA
    /\ emitted[2].outcome = "ok"

\* C18: in a run of main() the fact table is fully fetched before the key
\* inference of any dataset begins; for each dataset the steps fetch
\* snapshot, infer primary keys, infer foreign keys, decode fields, emit
\* happen in that order; and a dataset is fetched only after every dataset
\* before it in the list has been emitted.
C18_StepOrder ==
    [][ /\ pc' = "get_pks" =>
              /\ pc = "loop" /\ fks_info_df = keys_db
              /\ Len(fetched') = Len(fetched) + 1
              /\ Last(fetched').at = i /\ i' = i
        /\ pc' = "get_fks" => pc = "get_pks" /\ emitted' = emitted
        /\ pc' = "extract" => pc = "get_fks" /\ emitted' = emitted
        /\ pc' = "emit" => pc = "extract" /\ emitted' = emitted
        /\ emitted' # emitted =>
              /\ pc = "emit" /\ Len(emitted') = Len(emitted) + 1
              /\ Last(emitted').at = i /\ Last(fetched).at = i
        /\ fetched' # fetched =>
              /\ pc = "loop"
              /\ \A j \in 1..(i - 1) : EventsAt(j) # {}
              /\ \A k \in DOMAIN emitted : emitted[k].at < i
      ]_vars

\* C18 witness: the second dataset of the list is about to be emitted, after
\* the first was fetched and emitted, against a fact table with rows.
C18_Witness ==
    /\ pc = "emit" /\ i = 2
    /\ Len(fetched) = 2 /\ Len(emitted) = 1
    /\ emitted[1].at = 1 /\ fetched[2].at = 2
    /\ fks_info_df = keys_db /\ Len(keys_db) = 2

StatsPcs == {"s_list_urns", "s_loop", "s_push", "s_done", "s_aborted"}

\* C12: when the distinct count of the column exceeds the threshold,
\* column_distinct_values returns the empty list, logs a warning and does
\* not run the SELECT DISTINCT query; when the count is at most the threshold
\* it runs that query and returns its values as strings.
C12_DistinctThreshold ==
    (call.op = "column_distinct_values" /\ call.outcome = "ok") =>
        IF Len(call.values) > call.distinct_max
        THEN /\ call.raised = "none" /\ call.ret = List(<<>>)
             /\ \E k \in DOMAIN call.log : call.log[k].level = "WARNING"
             /\ \A k \in DOMAIN call.queries : call.queries[k] # "DISTINCT"
        ELSE /\ call.raised = "none"
             /\ \E k \in DOMAIN call.queries : call.queries[k] = "DISTINCT"
             /\ call.ret = List([k \in DOMAIN call.values |-> Str(call.values[k])])

\* C15: in a keys run, a failure of the key-fact fetch ends the run with no
\* dataset snapshot fetched and no write; in a stats run, once min_max_df
\* has failed for a dataset the run goes no further than that dataset, and
\* no profile is written for it or for a later one.
C15_DatabaseFailureIsFatal ==
    /\ (pc \notin StatsPcs /\ error = "pyodbc.Error") =>
          pc = "aborted" /\ fetched = <<>> /\ emitted = <<>>
    /\ pc \in StatsPcs =>
          \A k \in DOMAIN fetched :
              fetched[k].outcome = "failed" =>
                  /\ pc \in {"s_push", "s_aborted"}
                  /\ i = fetched[k].at
                  /\ \A e \in DOMAIN emitted : emitted[e].at < fetched[k].at

\* C15 witness: a stats run wrote the profile of its first dataset, the
\* min/max computation of the second failed, and the run has ended with an
\* error and no second write.
C15_Witness ==
    /\ pc = "s_aborted" /\ error = "AttributeError"
    /\ Len(fetched) = 2 /\ fetched[2].outcome = "failed"
    /\ Len(emitted) = 1 /\ emitted[1].outcome = "ok" /\ emitted[1].at = 1
    /\ "datasetProfile" \in DOMAIN catalog[urns[1]]
    /\ "datasetProfile" \notin DOMAIN catalog[urns[2]]

\* C19: once a write call has ended, with the emit succeeded or failed, the
\* emitter session it used is closed.
C19_SessionClosedAfterWrite ==
    /\ (pc \notin StatsPcs /\ emitted # <<>>) => emitter_closed
    /\ \A k \in DOMAIN sessions : sessions[k] = "closed"

\* C20: once a call of column_info, min_max_df or column_distinct_values
\* has ended, on any outcome, every connection it opened is closed.
C20_StatsConnectionsClosed ==
    \A k \in DOMAIN db_conns :
        db_conns[k].by \in {"column_info", "min_max_df", "column_distinct_values"}
            => db_conns[k].state = "closed"

(***************************************************************************)
(* Claims about keys, snapshots and identifiers.                           *)
(***************************************************************************)
\* C21: the foreignDataset of every constraint get_fks returns is
\* 'urn:li:dataset:(urn:li:dataPlatform:mssql,<server>.<db>.<schema>.<parent_table>,DEV)'
\* for the fixed server/db/schema and the parent_table of the constraint's
\* row; it ends in 'DEV' whatever the environment of the identifier given.
C21_ForeignDatasetIsDev ==
    (call.op = "get_fks" /\ extract_table_name(call.urn).ret # <<>>) =>
        LET T == extract_table_name(call.urn).ret
            M == {j \in 1..Len(call.df) : call.df[j].child_table = T}
        IN
        \A k \in 1..Len(call.ret) :
            LET j == CHOOSE h \in M : Cardinality({g \in M : g <= h}) = k IN
            call.ret[k].foreignDataset =
                <<"urn:li:dataset:(urn:li:dataPlatform:mssql", ",", "ekofisk", ".",
                  "CubeDevTest", ".", "UCube", ".">>
                \o call.df[j].parent_table \o <<",", "DEV)">>

\* C21 witness: get_fks was given an identifier of the PROD environment and
\* has returned a constraint.
C21_Witness ==
    /\ call.op = "get_fks" /\ Last(call.urn) = "PROD)"
    /\ Len(call.ret) = 1
    /\ Last(call.ret[1].foreignDataset) = "DEV)"

\* The k-th smallest element of a set of positions.
KthOf(S, k) == CHOOSE h \in S : Cardinality({g \in S : g <= h}) = k

\* C22: get_pks returns the distinct parent_key values of the rows whose
\* parent_table is T, in the order of their first occurrence, followed by
\* the PK-prefixed field paths of the snapshot in field order, and nothing
\* else; a path that is in both parts appears in both.
C22_PrimaryKeysAThenB ==
    (call.op = "get_pks" /\ extract_table_name(call.urn).ret # <<>>
        /\ HasSchema(call.json, call.urn)) =>
        LET T == extract_table_name(call.urn).ret
            fields == SchemaValue(call.json, call.urn).fields
            A == {j \in 1..Len(call.df) :
                     /\ call.df[j].parent_table = T
                     /\ \A h \in 1..(j - 1) :
                            call.df[h].parent_table = T
                                => call.df[h].parent_key # call.df[j].parent_key}
            B == {j \in 1..Len(fields) : StartsWithPKWord(fields[j].fieldPath)}
        IN
        /\ Len(call.ret) = Cardinality(A) + Cardinality(B)
        /\ \A k \in 1..Cardinality(A) : call.ret[k] = call.df[KthOf(A, k)].parent_key
        /\ \A k \in 1..Cardinality(B) :
              call.ret[Cardinality(A) + k] = fields[KthOf(B, k)].fieldPath

\* C22 witness: a key of the fact table is also a PK-prefixed field of the
\* snapshot, and get_pks has returned it twice.
C22_Witness ==
    /\ call.op = "get_pks" /\ call.raised = "none"
    /\ Len(call.ret) = 2
    /\ call.ret[1] = call.ret[2]
    /\ Len(call.df) = 1 /\ call.df[1].parent_key = call.ret[1]
    /\ call.df[1].parent_table = extract_table_name(call.urn).ret
    /\ Len(SchemaValue(call.json, call.urn).fields) = 1

\* C23: the snapshot emitted for a dataset has the schemaName, platform,
\* version, hash and platformSchema of the fetched snapshot, and its fields
\* are the fetched fields, as many and in the same order, each with its
\* fieldPath and other attributes unchanged and its type the class that
\* the fetched type tag names.
C23_SnapshotCopiesFetched ==
    (call.op = "emit_keys" /\ call.raised = "none") =>
        LET got == call.json.responses[call.urn].aspects.schemaMetadata.value
            out == call.mce.proposedSnapshot.aspects[1].object
        IN
        /\ out.schemaName = got.schemaName /\ out.platform = got.platform
        /\ out.version = got.version /\ out.hash = got.hash
        /\ out.platformSchema = got.platformSchema
        /\ Len(out.fields) = Len(got.fields)
        /\ \A j \in 1..Len(got.fields) :
              /\ DOMAIN out.fields[j] = DOMAIN got.fields[j]
              /\ out.fields[j].fieldPath = got.fields[j].fieldPath
              /\ out.fields[j].nativeDataType = got.fields[j].nativeDataType
              /\ out.fields[j].type =
                     [type |-> TYPE_CLASS_MAP[got.fields[j].type.type["__type"]]]

\* C23 witness: a snapshot at version 3 with a number field and a string
\* field went through and the event carries both.
C23_Witness ==
    /\ call.op = "emit_keys" /\ call.raised = "none"
    /\ call.mce.proposedSnapshot.aspects[1].object.version = 3
    /\ Len(call.mce.proposedSnapshot.aspects[1].object.fields) = 2
    /\ call.mce.proposedSnapshot.aspects[1].object.fields[1].type.type = "NumberTypeClass"
    /\ call.mce.proposedSnapshot.aspects[1].object.fields[2].type.type = "StringTypeClass"

\* The fetched snapshot without the keys the catalog stored in it.
WithoutStoredKeys(json, urn) ==
    LET value == json.responses[urn].aspects.schemaMetadata.value IN
    EntityJson(urn, "schemaMetadata" :>
        [value |-> [k \in DOMAIN value \ {"primaryKeys", "foreignKeys"} |-> value[k]]])

\* C28: the event built for a dataset equals the event built from the same
\* snapshot with its stored primaryKeys and foreignKeys removed, so the keys
\* emitted depend on the identifier, the fields and the fact table only, and
\* every primary key emitted is a parent key of the fact table or a field
\* path of the snapshot.
C28_StoredKeysDoNotCarry ==
    (call.op = "emit_keys" /\ call.raised = "none") =>
        LET bare == WithoutStoredKeys(call.json, call.urn)
            out == call.mce.proposedSnapshot.aspects[1].object
            value == call.json.responses[call.urn].aspects.schemaMetadata.value
        IN
        /\ call.mce =
              MetadataChangeEvent(call.urn,
                  extract_schema_field_metadata(call.urn, bare).ret,
                  get_pks(call.facts, call.urn, bare).ret,
                  get_fks(call.facts, call.urn, server, db, schema).ret)
        /\ "primaryKeys" \in DOMAIN out =>
              \A k \in DOMAIN out.primaryKeys :
                  \/ \E j \in DOMAIN call.facts :
                        call.facts[j].parent_key = out.primaryKeys[k]
                  \/ \E j \in DOMAIN value.fields :
                        value.fields[j].fieldPath = out.primaryKeys[k]

\* C28 witness: the fetched snapshot stored a primary key, nothing is
\* inferred for the dataset, and the event built carries no primary key.
C28_Witness ==
    /\ call.op = "emit_keys" /\ call.raised = "none"
    /\ "primaryKeys" \in
           DOMAIN call.json.responses[call.urn].aspects.schemaMetadata.value
    /\ "primaryKeys" \notin DOMAIN call.mce.proposedSnapshot.aspects[1].object

\* C27: in a run of the keys main(), no event is handed to the shared
\* emitter after an earlier emit_keys call has closed it.
C27_EmitOnOpenSession ==
    pc \notin StatsPcs =>
        \A k \in DOMAIN emitted : ~emitted[k].closed_before

\* C29: when the parent_table of a fact row holds no comma and no dot,
\* extract_table_name of the foreignDataset that get_fks builds for the row
\* is that parent_table.
C29_BuildThenParse ==
    (/\ call.op = "extract_table_name" /\ "parent_table" \in DOMAIN call
     /\ \A j \in DOMAIN call.parent_table :
           call.parent_table[j] # "," /\ call.parent_table[j] # ".") =>
        call.ret = call.parent_table

\* C29 witness: a two-character parent_table went into a foreignDataset
\* and came back out of it.
C29_Witness ==
    /\ call.op = "extract_table_name" /\ "parent_table" \in DOMAIN call
    /\ call.parent_table = <<"a", "b">>
    /\ call.ret = <<"a", "b">>
    /\ Len(call.urn) = Len(UrnA) + 1

\* C30: for every response and every domain name, the listing of
\* datahub_stats returns what the listing of datahub_foreign_keys returns:
\* the entities of the domain whose urn is 'urn:li:domain:<domain>'.
C30_ListingsAgree ==
    call.op = "both_listings" =>
        /\ call.stats.raised = call.keys.raised
        /\ call.stats.ret = call.keys.ret

\* Row k of the sheet is a header row: at or after the first 'Asset' row,
\* first cell non-empty, every other cell empty.
FirstAsset(sheet) ==
    LET hits == {k \in DOMAIN sheet : sheet[k][1] = Cell("Asset")} IN
    IF hits = {} THEN 0 ELSE CHOOSE k \in hits : \A h \in hits : k <= h

HeaderRow(sheet, k) ==
    /\ FirstAsset(sheet) > 0 /\ k >= FirstAsset(sheet)
    /\ Truthy(sheet[k][1])
    /\ \A j \in 2..Len(sheet[k]) : sheet[k][j] = NoneValue

\* The data rows that follow a header row named name and precede the next
\* header row, in sheet order.
RowsUnder(sheet, name) ==
    LET owned == {k \in DOMAIN sheet :
                     /\ ~HeaderRow(sheet, k)
                     /\ Truthy(sheet[k][1]) /\ Truthy(sheet[k][2])
                     /\ \E h \in 1..(k - 1) :
                           /\ HeaderRow(sheet, h) /\ sheet[h][1].v = name
                           /\ \A g \in (h + 1)..(k - 1) : ~HeaderRow(sheet, g)}
        idx == Ascending(owned)
    IN [n \in 1..Len(idx) |-> [column_name |-> sheet[idx[n]][1].v,
                               description |-> sheet[idx[n]][2].v]]

\* C26: extract_tables_from_xlsx maps each table name to every data row
\* that follows a header row of that name and precedes the next header row,
\* in sheet order; a name with no such row has no entry, and rows before
\* the first 'Asset' row contribute nothing.
C26_SheetRowsKept ==
    (call.op = "get_column_descriptions" /\ call.outcome = "ok") =>
        LET items == call.tables.items IN
        /\ \A k, h \in DOMAIN items : k # h => items[k].key # items[h].key
        /\ \A k \in DOMAIN items :
              /\ Cell(items[k].key) \in SheetNames
              /\ items[k].value = DataFrame(RowsUnder(call.sheet, items[k].key))
        /\ \A name \in SheetNames :
              RowsUnder(call.sheet, name.v) # <<>> =>
                  \E k \in DOMAIN items : items[k].key = name.v

\* The column names of rows, each once, in the order of first appearance.
ColumnKeys(rows) ==
    Filter([k \in DOMAIN rows |-> rows[k].column_name],
           {k \in DOMAIN rows : \A h \in 1..(k - 1) :
                                   rows[h].column_name # rows[k].column_name})

\* The description of the last row of rows named name.
LastDescription(rows, name) ==
    LET at == {k \in DOMAIN rows : rows[k].column_name = name} IN
    rows[CHOOSE k \in at : \A h \in at : h <= k].description

\* C24: each call of column_desc_emitter hands the emitter one event whose
\* editableSchemaFieldInfo holds one {fieldPath, description} entry per key
\* of the column dictionary of that table, in the dictionary's order, and
\* nothing else; each call of table_desc_emitter hands it one event whose
\* description is the text of that table.
C24_WholeListWritten ==
    call.op = "push_metadata" =>
        /\ Len(emitted) = (IF pc = "d_start" THEN 0 ELSE i - 1)
        /\ \A k \in DOMAIN emitted :
              LET item == call.tables_dict[k]
                  snap == emitted[k].mce.proposedSnapshot
                  object == snap.aspects[1].object
              IN
              /\ Len(snap.aspects) = 1
              /\ snap.urn = urn_generator_ucube(item.key, call.env).ret
              /\ call.kind = "table" =>
                    /\ snap.aspects[1].aspect = "editableDatasetProperties"
                    /\ object = [description |-> item.value]
              /\ call.kind = "column" =>
                    LET keys == ColumnKeys(item.value.rows)
                        info == object.editableSchemaFieldInfo
                    IN
                    /\ snap.aspects[1].aspect = "editableSchemaMetadata"
                    /\ Len(info) = Len(keys)
                    /\ \A j \in DOMAIN keys :
                          info[j] = [fieldPath |-> keys[j],
                                     description |->
                                         LastDescription(item.value.rows, keys[j])]

\* C24 witness: the second table of a column run was written with two
\* columns after the first was written with one column.
C24_Witness ==
    /\ call.op = "push_metadata" /\ call.kind = "column" /\ Len(emitted) = 2
    /\ Len(emitted[1].mce.proposedSnapshot.aspects[1].object.editableSchemaFieldInfo) = 1
    /\ emitted[2].mce.proposedSnapshot.aspects[1].object.editableSchemaFieldInfo
           = <<[fieldPath |-> "e", description |-> "x"],
               [fieldPath |-> "c", description |-> "d"]>>
    /\ emitted[1].mce.proposedSnapshot.aspects[1].object.editableSchemaFieldInfo[1].fieldPath
           = "c"

\* C25: in a description run a failed emit is logged and the loop goes on:
\* the run never aborts, the writes go through tables_dict in order, one per
\* table, and at the end every table of the dictionary has been attempted
\* exactly once.
C25_FailureDoesNotStopLoop ==
    call.op = "push_metadata" =>
        /\ pc \in {"d_start", "d_loop", "d_done"}
        /\ Len(emitted) = (IF pc = "d_start" THEN 0 ELSE i - 1)
        /\ Len(emitted) <= Len(call.tables_dict)
        /\ pc = "d_done" => Len(emitted) = Len(call.tables_dict)
        /\ \A k \in DOMAIN emitted :
              /\ emitted[k].at = k
              /\ emitted[k].urn = urn_generator_ucube(call.tables_dict[k].key,
                                                      call.env).ret
        /\ Cardinality({k \in DOMAIN emitted : emitted[k].outcome = "failed"})
               = Cardinality({k \in DOMAIN console : console[k].level = "ERROR"})

\* C25 witness: the write of the first table failed, the write of the
\* second went through, and the run ended.
C25_Witness ==
    /\ call.op = "push_metadata" /\ pc = "d_done"
    /\ Len(emitted) = 2
    /\ emitted[1].outcome = "failed" /\ emitted[2].outcome = "ok"
    /\ emitted[1].urn # emitted[2].urn

====
